---- MODULE Spec2Model ----
(***************************************************************************)
(* TypedAPI: the route contract compiler (defineApiRoute), its auth        *)
(* middleware (ApiMiddleware), the response helpers (ApiResponse) and the   *)
(* middleware composition helpers, as a state machine.                      *)
(*                                                                         *)
(* JavaScript values are tagged records ([t |-> "string", v |-> "c1"]), so  *)
(* that the string "1" and the number 1 are different values, and objects   *)
(* carry their own properties apart from the inherited ones.                *)
(***************************************************************************)
EXTENDS Integers, Sequences, FiniteSets, TLC

VARIABLES
    apiConfig,       \* the active configuration (messages of the auth stages)
    tokenValidator,  \* ApiMiddleware.tokenValidator: the installed validator
    options,         \* the route definition handed to defineApiRoute (mutated by it)
    declared,        \* a copy of the definition as the caller wrote it
    compiled,        \* defineApiRoute has returned
    warnings,        \* number of console.warn calls made by defineApiRoute
    registry,        \* apiRegistry: the entries registerPath received, in order
    router,          \* the router: [hasAuthMiddleware, stack]
    mode,            \* how stages are chained: "express" | "composed"
    pipeline,        \* the stages the request in progress runs through
    received,        \* the request in progress as it arrived
    req,             \* the request in progress: headers, params, query, body, user
    pos,             \* index in pipeline of the stage that runs next
    pc,              \* "idle" | "run" | "awaitToken" | "awaitClaim" | "awaitHandler" | "done"
    inflight,        \* the call a suspended stage awaits
    started,         \* indexes of the stages entered, in order
    continued,       \* indexes of the stages that called next(), in order
    responses,       \* the responses emitted: [by, status, body], in order
    nextErrors,      \* errors handed to the framework's next(err): [by, err]
    escaped,         \* exceptions/rejections that left a stage unhandled: [by, err]
    handlerCalls,    \* what the handler saw each time it was invoked
    validatorCalls,  \* calls of the token validator and of claim validators, in order
    raised,          \* what caller-supplied functions threw or rejected with, in order
    contexts,        \* concurrent requests: each request's own context
    heap,            \* the user objects in memory; contexts refer to them by index
    envelope,        \* the ApiResponse builder call a handler made last
    callerObjects,   \* the responses map and auth object the caller builds
                     \* its definitions from: as written, and as they are now
    settings         \* what defaultApiConfig holds, the argument of the latest
                     \* configureApi call and the number of calls made

vars == << apiConfig, tokenValidator, options, declared, compiled, warnings,
           registry, router, mode, pipeline, received, req, pos, pc, inflight,
           started,
           continued, responses, nextErrors, escaped, handlerCalls,
           validatorCalls, raised, contexts, heap, envelope,
           callerObjects, settings >>

configVars == << apiConfig, tokenValidator, callerObjects, settings >>
routeVars  == << options, declared, compiled, warnings, registry, router >>
runVars    == << pipeline, received, req, pos, pc, inflight, started, continued,
                 responses, nextErrors, escaped, handlerCalls,
                 validatorCalls, raised >>
concVars   == << contexts, heap, envelope >>

-----------------------------------------------------------------------------
(* Bounds of the model *)

MaxCustom == 1      \* custom middleware entries of one route definition
MaxClaims == 2      \* claim rules of one route definition

-----------------------------------------------------------------------------
(* JavaScript values *)

Undefined == [t |-> "undefined"]
Null      == [t |-> "null"]
Str(s)    == [t |-> "string", v |-> s]
Num(n)    == [t |-> "number", v |-> n]
Bool(b)   == [t |-> "boolean", v |-> b]
Arr(seq)  == [t |-> "array", v |-> seq]
Fn(name)  == [t |-> "function", v |-> name]
\* a plain object: own properties, and whether it inherits Object.prototype
Obj(own)  == [t |-> "object", own |-> own, proto |-> TRUE]
BareObj(own) == [t |-> "object", own |-> own, proto |-> FALSE]

NoProps == [k \in {} |-> Undefined]

\* property names every plain object inherits from Object.prototype
ObjectPrototypeKeys ==
    {"constructor", "toString", "valueOf", "hasOwnProperty", "__proto__"}

\* JavaScript truthiness: if (x) ...
Truthy(x) ==
    CASE x.t = "undefined" -> FALSE
      [] x.t = "null"      -> FALSE
      [] x.t = "string"    -> x.v # ""
      [] x.t = "number"    -> x.v # 0
      [] x.t = "boolean"   -> x.v
      [] x.t = "nan"       -> FALSE
      [] OTHER             -> TRUE

\* a === b for the primitives of the model (no coercion)
StrictEquals(a, b) ==
    IF a.t # b.t THEN FALSE
    ELSE IF a.t \in {"string", "number", "boolean", "function"} THEN a.v = b.v
    ELSE a.t \in {"undefined", "null"}

\* Array.isArray(x)
IsArray(x) == x.t = "array"

\* arr.includes(x)
Includes(arr, x) == \E i \in DOMAIN arr.v : StrictEquals(arr.v[i], x)

\* key in obj   (own and inherited properties)
HasProperty(key, obj) ==
    \/ key \in DOMAIN obj.own
    \/ obj.proto /\ key \in ObjectPrototypeKeys

\* value[key]   (value neither undefined nor null)
Get(value, key) ==
    CASE value.t = "object" ->
            IF key \in DOMAIN value.own THEN value.own[key]
            ELSE IF value.proto /\ key \in ObjectPrototypeKeys THEN Fn(key)
            ELSE Undefined
      [] value.t \in {"array", "string"} ->
            IF key = "length" THEN Num(Len(value.v))
            ELSE IF key \in ObjectPrototypeKeys THEN Fn(key)
            ELSE Undefined
      [] OTHER ->
            IF key \in ObjectPrototypeKeys THEN Fn(key) ELSE Undefined

\* { ...a, ...b }
Spread(a, b) ==
    [k \in DOMAIN a \cup DOMAIN b |-> IF k \in DOMAIN b THEN b[k] ELSE a[k]]

\* o.k for an options object held as a function on its own keys
Prop(o, k) == IF k \in DOMAIN o THEN o[k] ELSE Undefined

-----------------------------------------------------------------------------
(* Configuration *)

defaultApiConfig ==
    [ unauthorized       |-> "Authentication required",
      invalidToken       |-> "Invalid or expired token",
      insufficientRoles  |-> "Insufficient role permissions",
      insufficientScopes |-> "Insufficient scope permissions",
      insufficientClaims |-> "Access denied: insufficient claim" ]

\* the argument of configureApi: auth.defaultErrorMessages holds some of
\* the messages, or auth is not given
NoConfig == [given |-> FALSE]
ConfigArgument(messages) == [given |-> TRUE, messages |-> messages]
NoMessages == [k \in {} |-> ""]

\* { ...defaultApiConfig.auth.defaultErrorMessages,
\*   ...(config.auth?.defaultErrorMessages || {}) }
Overlay(base, config) ==
    [ k \in DOMAIN base |->
        IF k \in DOMAIN config.messages THEN config.messages[k] ELSE base[k] ]

\* a variant that overlays the argument on the configuration in force and
\* writes the outcome into the defaults as well
configureApiAssign(defaults, current, config) ==
    [ active |-> Overlay(current, config), defaults |-> Overlay(current, config) ]

\* configureApi(config): the new apiConfig and what defaultApiConfig holds
\* after the call
configureApi(defaults, current, config) ==
    [ active |-> Overlay(defaults, config), defaults |-> defaults ]

NoSettings == [defaults |-> defaultApiConfig, latest |-> NoConfig, calls |-> 0]

-----------------------------------------------------------------------------
(* ApiResponse: what res.status(s).json(body) is called with *)

\* ApiResponse.error(res, message, details, status)
ApiError(message, details, status) ==
    [ status |-> status, body |-> [error |-> message, details |-> details] ]

\* ApiResponse.unauthorized(res, message, details)
ApiUnauthorized(message, details) ==
    ApiError("Unauthorized", Spread([message |-> message], details), 401)

\* ApiResponse.forbidden(res, message, details)
ApiForbidden(message, details) ==
    ApiError("Forbidden", Spread([message |-> message], details), 403)

\* ApiResponse.success(res, data, status)
ApiSuccess(data, status) == [ status |-> status, body |-> data ]

\* ApiResponse.created(res, data)
ApiCreated(data) == [ status |-> 201, body |-> data ]

\* ApiResponse.badRequest(res, message, details)
ApiBadRequest(message, details) == ApiError(message, details, 400)

\* a variant of conflict that answers with the status of a bad request
ApiConflictBadRequest(message, details) ==
    ApiError("Conflict", Spread([message |-> message], details), 400)

\* ApiResponse.conflict(res, message, details)
ApiConflict(message, details) ==
    ApiError("Conflict", Spread([message |-> message], details), 409)

\* ApiResponse.notFound(res, message, details)
ApiNotFound(message, details) ==
    ApiError("Not Found", Spread([message |-> message], details), 404)

\* ApiResponse.serverError(res, message, details)
ApiServerError(message, details) ==
    ApiError("Server Error", Spread([message |-> message], details), 500)

\* a call of one of the builders: data, status, message and details are
\* JavaScript values, undefined when the argument is left out
NoEnvelope == [fn |-> "none"]

\* a parameter with a default value: the default stands in for undefined
OrDefault(arg, default) == IF arg.t = "undefined" THEN default ELSE arg.v

\* details || {}  and  ...details
OrEmpty(details) == IF details.t = "undefined" THEN NoProps ELSE details.own

\* what res.status(s).json(body) receives from the builder called
ApiResponseCall(call, cfg) ==
    CASE call.fn = "success" -> ApiSuccess(call.data, OrDefault(call.status, 200))
      [] call.fn = "created" -> ApiCreated(call.data)
      [] call.fn = "badRequest" ->
            ApiBadRequest(OrDefault(call.message, "Bad Request"), OrEmpty(call.details))
      [] call.fn = "conflict" ->
            ApiConflict(OrDefault(call.message, Undefined), OrEmpty(call.details))
      [] call.fn = "error" ->
            ApiError(OrDefault(call.message, Undefined), OrEmpty(call.details),
                     OrDefault(call.status, 400))
      [] call.fn = "unauthorized" ->
            ApiUnauthorized(OrDefault(call.message, cfg.unauthorized), OrEmpty(call.details))
      [] call.fn = "forbidden" ->
            ApiForbidden(OrDefault(call.message, "Forbidden"), OrEmpty(call.details))
      [] call.fn = "notFound" ->
            ApiNotFound(OrDefault(call.message, "Not Found"), OrEmpty(call.details))
      [] call.fn = "serverError" ->
            ApiServerError(OrDefault(call.message, "Internal Server Error"),
                           OrEmpty(call.details))

-----------------------------------------------------------------------------
(* What a stage does with a request: one of                                 *)
(*   continue  - it called next()                                           *)
(*   respond   - it emitted a terminal response and returned                *)
(*   throw     - an exception left its body                                 *)
(*   await     - it suspended on a caller-supplied function                 *)

Continue       == [act |-> "continue"]
Respond(resp)  == [act |-> "respond", resp |-> resp]
Throw(err)     == [act |-> "throw", err |-> err]
Await(call)    == [act |-> "await", call |-> call]

(* ApiMiddleware.authentication, up to the call of the token validator.     *)
(* A header string is held as its words, split at single spaces:            *)
(* "Bearer abc" is <<"Bearer", "abc">>.                                      *)
NoHeader == Undefined
Header(words) == [t |-> "header", words |-> words]

\* a variant that accepts any scheme word
HeaderRejectedAnyScheme(authHeader) ==
    \/ authHeader.t = "undefined"
    \/ Len(authHeader.words) < 2

\* !authHeader || !authHeader.startsWith('Bearer ')
HeaderRejected(authHeader) ==
    \/ authHeader.t = "undefined"
    \/ authHeader.words = <<"">>
    \/ Len(authHeader.words) < 2
    \/ authHeader.words[1] # "Bearer"

\* authHeader.split(' ')[1]
ExtractToken(authHeader) == authHeader.words[2]

\* a variant whose stage keeps the validator that was shipped
AuthenticationStartShipped(request, cfg, validator) ==
    IF HeaderRejected(request.headers.authorization)
    THEN Respond(ApiUnauthorized(cfg.unauthorized,
                    [message |-> "Missing or invalid authorization token"]))
    ELSE Await([validator |-> "default",
                token |-> ExtractToken(request.headers.authorization)])

AuthenticationStart(request, cfg, validator) ==
    IF HeaderRejected(request.headers.authorization)
    THEN Respond(ApiUnauthorized(cfg.unauthorized,
                    [message |-> "Missing or invalid authorization token"]))
    ELSE Await([validator |-> validator,
                token |-> ExtractToken(request.headers.authorization)])

\* thrown values that are not Error objects (throw 'denied'); every other
\* thrown value is an Error, held as its message
ThrownStrings == {"denied"}

\* error instanceof Error ? error.message : 'Token validation failed'
ErrorMessage(err) ==
    IF err \in ThrownStrings THEN "Token validation failed" ELSE err

\* a variant that answers as the outer catch does, without the error detail
AuthenticationFailedPlain(cfg, err) ==
    Respond(ApiUnauthorized(cfg.invalidToken, NoProps))

\* the inner catch of authMiddleware: the validator threw or rejected
AuthenticationFailed(cfg, err) ==
    Respond(ApiUnauthorized(cfg.invalidToken, [error |-> ErrorMessage(err)]))

(* ApiMiddleware.roleAuthorization(roles) *)
AsArray(x) == IF IsArray(x) THEN x ELSE Arr(<<x>>)

\* a variant that demands every listed role
RoleMiddlewareEvery(roles, request, cfg) ==
    LET user == request.user
        requiredRoles == AsArray(roles)
    IN  IF ~Truthy(user) THEN Respond(ApiUnauthorized(cfg.unauthorized, NoProps))
        ELSE IF ~(\A i \in DOMAIN requiredRoles.v :
                     Includes(Get(user, "roles"), requiredRoles.v[i]))
        THEN Respond(ApiForbidden(cfg.insufficientRoles, NoProps))
        ELSE Continue

RoleMiddleware(roles, request, cfg) ==
    LET user == request.user
        requiredRoles == AsArray(roles)
    IN  IF ~Truthy(user) THEN Respond(ApiUnauthorized(cfg.unauthorized, NoProps))
        ELSE IF requiredRoles.v # <<>> /\ ~IsArray(Get(user, "roles"))
        THEN Throw("TypeError")
        ELSE IF ~(\E i \in DOMAIN requiredRoles.v :
                     Includes(Get(user, "roles"), requiredRoles.v[i]))
        THEN Respond(ApiForbidden(cfg.insufficientRoles, NoProps))
        ELSE Continue

\* a variant that accepts any one of the listed scopes
ScopeMiddlewareSome(scopes, request, cfg) ==
    LET user == request.user
        requiredScopes == AsArray(scopes)
    IN  IF ~Truthy(user) THEN Respond(ApiUnauthorized(cfg.unauthorized, NoProps))
        ELSE IF ~(\E i \in DOMAIN requiredScopes.v :
                     Includes(Get(user, "scopes"), requiredScopes.v[i]))
        THEN Respond(ApiForbidden(cfg.insufficientScopes, NoProps))
        ELSE Continue

(* ApiMiddleware.scopeAuthorization(scopes) *)
ScopeMiddleware(scopes, request, cfg) ==
    LET user == request.user
        requiredScopes == AsArray(scopes)
    IN  IF ~Truthy(user) THEN Respond(ApiUnauthorized(cfg.unauthorized, NoProps))
        ELSE IF requiredScopes.v # <<>> /\ ~IsArray(Get(user, "scopes"))
        THEN Throw("TypeError")
        ELSE IF ~(\A i \in DOMAIN requiredScopes.v :
                     Includes(Get(user, "scopes"), requiredScopes.v[i]))
        THEN Respond(ApiForbidden(cfg.insufficientScopes, NoProps))
        ELSE Continue

(* ApiMiddleware.claimValidation(options).  userClaimPath is held as the    *)
(* result of split('.'): "a.b.c" is <<"a", "b", "c">>.                       *)
RECURSIVE WalkClaimPath(_, _)
WalkClaimPath(claimValue, claimPath) ==
    IF claimPath = <<>> THEN claimValue
    ELSE IF claimValue.t \in {"undefined", "null"} THEN claimValue
    ELSE WalkClaimPath(Get(claimValue, Head(claimPath)), Tail(claimPath))

\* a variant that compares with coercion (==): the number 1 matches "1"
LooseText(x) ==
    IF x.t = "number" THEN (IF x.v = 1 THEN "1" ELSE IF x.v = 2 THEN "2" ELSE "n")
    ELSE IF x.t = "string" THEN x.v
    ELSE x.t
DefaultClaimCheckLoose(claimValue, paramValue) ==
    IF IsArray(claimValue)
    THEN \E i \in DOMAIN claimValue.v : LooseText(claimValue.v[i]) = LooseText(paramValue)
    ELSE IF claimValue.t = "object" THEN HasProperty(paramValue.v, claimValue)
    ELSE LooseText(claimValue) = LooseText(paramValue)

\* the default policy: no custom validator
DefaultClaimCheck(claimValue, paramValue) ==
    IF IsArray(claimValue) THEN Includes(claimValue, paramValue)
    ELSE IF claimValue.t = "object" THEN HasProperty(paramValue.v, claimValue)
    ELSE StrictEquals(claimValue, paramValue)

\* `Access denied: insufficient claim for '${routeParamName}'`
ClaimDeniedMessage(routeParamName) ==
    CASE routeParamName = "companyId" ->
            "Access denied: insufficient claim for 'companyId'"
      [] routeParamName = "projectId" ->
            "Access denied: insufficient claim for 'projectId'"
      [] OTHER -> "Access denied: insufficient claim for '?'"

\* `Parameter '${routeParamName}' is required for claim validation`
ClaimParamMessage(routeParamName) ==
    CASE routeParamName = "companyId" ->
            "Parameter 'companyId' is required for claim validation"
      [] routeParamName = "projectId" ->
            "Parameter 'projectId' is required for claim validation"
      [] OTHER -> "Parameter '?' is required for claim validation"

\* if (!isValid) return forbidden(...); next()
ClaimVerdict(rule, isValid, cfg) ==
    IF ~isValid
    THEN Respond(ApiForbidden(cfg.insufficientClaims,
                    [message |-> ClaimDeniedMessage(rule.routeParamName)]))
    ELSE Continue

\* a variant that looks at the route parameter before the user
ClaimValidationStartParamFirst(rule, request, cfg) ==
    LET user == request.user
        paramValue == Get(request.params, rule.routeParamName)
        claimValue == WalkClaimPath(user, rule.userClaimPath)
    IN  IF ~Truthy(paramValue)
        THEN Respond(ApiError("Bad Request",
                        [message |-> ClaimParamMessage(rule.routeParamName)], 400))
        ELSE IF ~Truthy(user)
        THEN Respond(ApiUnauthorized("Authentication required for claim validation",
                                     NoProps))
        ELSE IF Truthy(rule.validator)
        THEN Await([validator |-> rule.validator, claimValue |-> claimValue,
                    paramValue |-> paramValue])
        ELSE ClaimVerdict(rule, DefaultClaimCheck(claimValue, paramValue), cfg)

ClaimValidationStart(rule, request, cfg) ==
    LET user == request.user
        paramValue == Get(request.params, rule.routeParamName)
        claimValue == WalkClaimPath(user, rule.userClaimPath)
    IN  IF ~Truthy(user)
        THEN Respond(ApiUnauthorized("Authentication required for claim validation",
                                     NoProps))
        ELSE IF ~Truthy(paramValue)
        THEN Respond(ApiError("Bad Request",
                        [message |-> ClaimParamMessage(rule.routeParamName)], 400))
        ELSE IF Truthy(rule.validator)
        THEN Await([validator |-> rule.validator, claimValue |-> claimValue,
                    paramValue |-> paramValue])
        ELSE ClaimVerdict(rule, DefaultClaimCheck(claimValue, paramValue), cfg)

-----------------------------------------------------------------------------
(* Schemas (zod, consumed through safeParse): an object schema is held as   *)
(* the ordered list of its fields and the kind of each: a required string,  *)
(* or one of the query adapters.  safeParse succeeds iff the input is an    *)
(* object on which every field parses; its data holds the fields' outputs   *)
(* only (unknown keys are stripped).                                        *)

Range(seq) == { seq[i] : i \in DOMAIN seq }

\* z.object({...}) with the given kind for every field
ObjectSchema(shape, kinds) == [t |-> "zod", shape |-> shape, kinds |-> kinds]

\* z.object of required z.string() fields
Schema(shape) == ObjectSchema(shape, [f \in Range(shape) |-> "string"])

ErrorSchema == Schema(<<"error", "details">>)

\* a string whose characters matter: the sequence of its characters
Text(chars) == [t |-> "string", v |-> chars]

\* NaN: a number equal to nothing, itself included
NaN == [t |-> "nan"]

DigitChars == <<"0", "1", "2", "3", "4", "5", "6", "7", "8", "9">>
IsDigit(c) == \E i \in DOMAIN DigitChars : DigitChars[i] = c
DigitValue(c) == (CHOOSE i \in DOMAIN DigitChars : DigitChars[i] = c) - 1
WhiteSpace == {" "}

RECURSIVE TrimStart(_)
TrimStart(chars) ==
    IF chars # <<>> /\ Head(chars) \in WhiteSpace THEN TrimStart(Tail(chars)) ELSE chars

RECURSIVE LeadingDigits(_)
LeadingDigits(chars) ==
    IF chars # <<>> /\ IsDigit(Head(chars))
    THEN <<Head(chars)>> \o LeadingDigits(Tail(chars))
    ELSE <<>>

RECURSIVE DecimalValue(_)
DecimalValue(digits) ==
    IF digits = <<>> THEN 0
    ELSE 10 * DecimalValue(SubSeq(digits, 1, Len(digits) - 1))
           + DigitValue(digits[Len(digits)])

\* parseInt(chars, 10): leading white space, an optional sign, then digits up
\* to the first character that is not one; NaN when there is no digit
ParseInt(chars) ==
    LET trimmed  == TrimStart(chars)
        signed   == trimmed # <<>> /\ Head(trimmed) \in {"+", "-"}
        unsigned == IF signed THEN Tail(trimmed) ELSE trimmed
        digits   == LeadingDigits(unsigned)
    IN  IF digits = <<>> THEN NaN
        ELSE IF signed /\ Head(trimmed) = "-" THEN Num(0 - DecimalValue(digits))
        ELSE Num(DecimalValue(digits))

\* val ? a : b  for an optional string
HasText(val) == val.t = "string" /\ val.v # <<>>

\* a variant of the boolean adapter that leaves an absent value undefined
queryBooleanAbsentKept(val) ==
    IF val.t = "undefined" THEN Undefined
    ELSE Bool(val = Text(<<"t", "r", "u", "e">>) \/ val = Text(<<"1">>))

\* queryBoolean's transform: val === 'true' || val === '1'
queryBoolean(val) ==
    Bool(val = Text(<<"t", "r", "u", "e">>) \/ val = Text(<<"1">>))

\* queryInteger's transform: val ? parseInt(val, 10) : undefined
queryInteger(val) ==
    IF HasText(val) THEN ParseInt(val.v) ELSE Undefined

\* the value of field f of the raw input (undefined when absent)
RawField(raw, f) ==
    IF raw.t = "object" /\ f \in DOMAIN raw.own THEN raw.own[f] ELSE Undefined

\* z.string() accepts a string; z.string().optional() also undefined
FieldAccepts(kind, val) ==
    IF kind = "string" THEN val.t = "string"
    ELSE val.t \in {"string", "undefined"}

\* the output of a field that was accepted
FieldOutput(kind, val) ==
    CASE kind = "queryBoolean" -> queryBoolean(val)
      [] kind = "queryInteger" -> queryInteger(val)
      [] OTHER                 -> val

\* the fields on which the schema reports an issue
MissingFields(schema, raw) ==
    { f \in Range(schema.shape) :
        \/ raw.t # "object"
        \/ ~FieldAccepts(schema.kinds[f], RawField(raw, f)) }

\* a variant whose data is the raw input of the fields, not their output
SafeParseUncoerced(schema, raw) ==
    IF MissingFields(schema, raw) = {}
    THEN [success |-> TRUE,
          data |-> Obj([f \in Range(schema.shape) \cap DOMAIN raw.own |-> raw.own[f]])]
    ELSE [success |-> FALSE,
          error |-> [f \in MissingFields(schema, raw) |-> "Required"]]

\* schema.safeParse(raw); error is what error.format() reports.  A field is
\* set in data when the input holds it or its output is not undefined.
SafeParse(schema, raw) ==
    IF MissingFields(schema, raw) = {}
    THEN [success |-> TRUE,
          data |-> Obj([f \in { x \in Range(schema.shape) :
                                  \/ x \in DOMAIN raw.own
                                  \/ FieldOutput(schema.kinds[x], RawField(raw, x)).t
                                       # "undefined" }
                          |-> FieldOutput(schema.kinds[f], RawField(raw, f))])]
    ELSE [success |-> FALSE,
          error |-> [f \in MissingFields(schema, raw) |-> "Required"]]

(* The validation-and-dispatch stage of defineApiRoute, up to the call of   *)
(* the handler: the result carries the request as the stage left it.        *)
DispatchBody(stage, request) ==
    LET bodyResult == SafeParse(stage.body, request.body)
    IN  IF ~Truthy(stage.body)
        THEN [act |-> "await", request |-> request]
        ELSE IF ~bodyResult.success
        THEN [act |-> "respond", request |-> request,
              resp |-> ApiError("Invalid request body", bodyResult.error, 400)]
        ELSE [act |-> "await",
              request |-> [request EXCEPT !.body = bodyResult.data]]

DispatchQuery(stage, request) ==
    LET queryResult == SafeParse(stage.query, request.query)
    IN  IF ~Truthy(stage.query)
        THEN DispatchBody(stage, request)
        ELSE IF ~queryResult.success
        THEN [act |-> "respond", request |-> request,
              resp |-> ApiError("Invalid query parameters", queryResult.error, 400)]
        ELSE DispatchBody(stage, [request EXCEPT !.query = queryResult.data])

\* a variant that checks the body before params and query
ValidateAndDispatchBodyFirst(stage, request) ==
    LET bodyResult == SafeParse(stage.body, request.body)
        rest == DispatchQuery([stage EXCEPT !.body = Undefined], request)
    IN  IF Truthy(stage.body) /\ ~bodyResult.success
        THEN [act |-> "respond", request |-> request,
              resp |-> ApiError("Invalid request body", bodyResult.error, 400)]
        ELSE IF Truthy(stage.params) /\ ~SafeParse(stage.params, request.params).success
        THEN [act |-> "respond", request |-> request,
              resp |-> ApiError("Invalid request parameters",
                                SafeParse(stage.params, request.params).error, 400)]
        ELSE DispatchQuery(stage,
                 IF Truthy(stage.params)
                 THEN [request EXCEPT !.params = SafeParse(stage.params, request.params).data]
                 ELSE request)

ValidateAndDispatch(stage, request) ==
    LET paramsResult == SafeParse(stage.params, request.params)
    IN  IF ~Truthy(stage.params)
        THEN DispatchQuery(stage, request)
        ELSE IF ~paramsResult.success
        THEN [act |-> "respond", request |-> request,
              resp |-> ApiError("Invalid request parameters", paramsResult.error, 400)]
        ELSE DispatchQuery(stage, [request EXCEPT !.params = paramsResult.data])

-----------------------------------------------------------------------------
(* defineApiRoute: the route definition is an object; options.auth and      *)
(* options.auth.authorization are objects whose own keys matter             *)
(* (Object.keys), options.response maps status codes to schemas.            *)

SetProp(obj, k, val) ==
    [obj EXCEPT !.own = Spread(obj.own, [x \in {k} |-> val])]

\* Object.keys(obj).length
KeyCount(obj) == Cardinality(DOMAIN obj.own)

\* a variant that always installs ErrorSchema under '400'
InjectValidationErrorAlways(opts) ==
    [opts EXCEPT !.response = SetProp(opts.response, "400", ErrorSchema)]

\* if (!options.response['400']) options.response['400'] = ErrorSchema
InjectValidationError(opts) ==
    IF ~Truthy(Get(opts.response, "400"))
    THEN [opts EXCEPT !.response = SetProp(opts.response, "400", ErrorSchema)]
    ELSE opts

\* else console.warn(...)
WarnsCustom400(opts) == Truthy(Get(opts.response, "400"))

\* a variant that writes the negation of the declared flag whenever
\* authorization holds a key
normalizeAuthOptionsToggle(opts) ==
    IF ~Truthy(opts.auth) THEN opts
    ELSE IF /\ Truthy(Get(opts.auth, "authorization"))
            /\ KeyCount(Get(opts.auth, "authorization")) > 0
    THEN [opts EXCEPT !.auth = SetProp(opts.auth, "requiresAuthentication",
                          Bool(~Truthy(Get(opts.auth, "requiresAuthentication"))))]
    ELSE opts

\* a variant that leaves requiresAuthentication as declared
normalizeAuthOptionsSkipped(opts) == opts

\* normalizeAuthOptions(options)
normalizeAuthOptions(opts) ==
    IF ~Truthy(opts.auth) THEN opts
    ELSE IF /\ ~Truthy(Get(opts.auth, "requiresAuthentication"))
            /\ Truthy(Get(opts.auth, "authorization"))
            /\ KeyCount(Get(opts.auth, "authorization")) > 0
    THEN [opts EXCEPT !.auth = SetProp(opts.auth, "requiresAuthentication", Bool(TRUE))]
    ELSE opts

(* registerWithOpenAPI(options): the entry handed to apiRegistry.registerPath. *)
(* A path is held as its segments; ":name" is [param |-> "name"].               *)
Lit(sx)      == [seg |-> "literal", name |-> sx]
Param(name) == [seg |-> "param", name |-> name]
Brace(name) == [seg |-> "brace", name |-> name]

\* pathToUse.replace(/:([^/]+)/g, '{$1}')
OpenApiPath(path) ==
    [i \in DOMAIN path |->
        IF path[i].seg = "param" THEN Brace(path[i].name) ELSE path[i]]

AuthErrorSchema == Schema(<<"error", "details">>)

\* `Status ${statusCode} response`
StatusDescription(statusCode) ==
    CASE statusCode = "200" -> "Status 200 response"
      [] statusCode = "201" -> "Status 201 response"
      [] statusCode = "400" -> "Status 400 response"
      [] statusCode = "401" -> "Status 401 response"
      [] statusCode = "403" -> "Status 403 response"
      [] OTHER -> "Status ? response"

\* the authorization dimensions that make a 403 possible
HasAuthorizationRule(authz) ==
    /\ Truthy(authz)
    /\ \/ Truthy(Get(authz, "roles"))
       \/ Truthy(Get(authz, "scopes"))
       \/ /\ Truthy(Get(authz, "claims"))
          /\ Len(Get(authz, "claims").v) > 0

\* claim.description || `Requires claim '...' to match parameter '...'`
ClaimDescription(claim) ==
    IF Truthy(claim.description)
    THEN [text |-> "given", of |-> claim.description.v]
    ELSE [text |-> "Requires claim to match parameter",
          of |-> <<claim.userClaimPath, claim.routeParamName>>]

\* the description text, as its parts in order
DocDescription(opts) ==
    LET authz  == Get(opts.auth, "authorization")
        claims == Get(authz, "claims")
        base   == IF Truthy(opts.description)
                  THEN <<[text |-> "given", of |-> opts.description.v]>>
                  ELSE <<>>
    IN  IF /\ Truthy(opts.auth)
           /\ Truthy(Get(opts.auth, "requiresAuthentication"))
           /\ Truthy(authz) /\ Truthy(claims) /\ Len(claims.v) > 0
        THEN base \o <<[text |-> "**Required Claims:**", of |-> <<>>]>>
                  \o [i \in DOMAIN claims.v |-> ClaimDescription(claims.v[i])]
        ELSE base

\* a variant that documents security for every definition with an auth object
DocSecuredAnyAuth(opts) == Truthy(opts.auth)

DocSecured(opts) ==
    Truthy(opts.auth) /\ Truthy(Get(opts.auth, "requiresAuthentication"))

DocResponses(opts) ==
    LET synth401 == IF DocSecured(opts) /\ ~Truthy(Get(opts.response, "401"))
                    THEN {"401"} ELSE {}
        synth403 == IF /\ DocSecured(opts)
                       /\ ~Truthy(Get(opts.response, "403"))
                       /\ HasAuthorizationRule(Get(opts.auth, "authorization"))
                    THEN {"403"} ELSE {}
        own      == DOMAIN opts.response.own
    IN  [c \in synth401 \cup synth403 \cup own |->
            IF c \in own
            THEN [description |-> StatusDescription(c), schema |-> opts.response.own[c]]
            ELSE [description |-> IF c = "401" THEN "Unauthorized" ELSE "Forbidden",
                  schema |-> AuthErrorSchema]]

DocParameters(opts) ==
    (IF Truthy(opts.params)
     THEN [i \in DOMAIN opts.params.shape |->
             [name |-> opts.params.shape[i], in |-> "path", required |-> TRUE]]
     ELSE <<>>)
    \o
    (IF Truthy(opts.query)
     THEN [i \in DOMAIN opts.query.shape |->
             [name |-> opts.query.shape[i], in |-> "query", required |-> FALSE]]
     ELSE <<>>)

registerWithOpenAPI(opts) ==
    [ method      |-> opts.method,
      path        |-> OpenApiPath(IF Truthy(opts.swaggerPath)
                                  THEN opts.swaggerPath.v ELSE opts.path),
      summary     |-> opts.summary,
      tags        |-> opts.tags,
      description |-> DocDescription(opts),
      security    |-> IF DocSecured(opts) THEN <<"bearerAuth">> ELSE <<>>,
      responses   |-> DocResponses(opts),
      parameters  |-> DocParameters(opts),
      requestBody |-> opts.body ]

(* The router attacher of defineApiRoute: the middlewares array it builds.  *)
AuthenticationStage == [k |-> "authentication"]
RoleStage(roles)    == [k |-> "role", roles |-> roles]
ScopeStage(scopes)  == [k |-> "scope", scopes |-> scopes]
ClaimStage(rule)    == [k |-> "claim", rule |-> rule]
CustomStage(fn)     == [k |-> "custom", fn |-> fn]
DispatchStage(opts) == [k |-> "dispatch", params |-> opts.params,
                        query |-> opts.query, body |-> opts.body]

\* a variant that never adds the route's own authentication stage
OwnAuthenticationNever(hasAuthMiddleware) == <<>>

\* if (!hasAuthMiddleware) middlewares.push(ApiMiddleware.authentication())
OwnAuthentication(hasAuthMiddleware) ==
    IF ~hasAuthMiddleware THEN <<AuthenticationStage>> ELSE <<>>

RoleStages(authz) ==
    IF Truthy(Get(authz, "roles")) THEN <<RoleStage(Get(authz, "roles"))>> ELSE <<>>

ScopeStages(authz) ==
    IF Truthy(Get(authz, "scopes")) THEN <<ScopeStage(Get(authz, "scopes"))>> ELSE <<>>

ClaimStages(authz) ==
    LET claims == Get(authz, "claims")
    IN  IF Truthy(claims) /\ Len(claims.v) > 0
        THEN [i \in DOMAIN claims.v |-> ClaimStage(claims.v[i])]
        ELSE <<>>

AuthStages(opts, hasAuthMiddleware) ==
    LET authz == Get(opts.auth, "authorization")
    IN  IF Truthy(opts.auth) /\ Truthy(Get(opts.auth, "requiresAuthentication"))
        THEN OwnAuthentication(hasAuthMiddleware)
             \o (IF Truthy(authz)
                 THEN RoleStages(authz) \o ScopeStages(authz) \o ClaimStages(authz)
                 ELSE <<>>)
        ELSE <<>>

CustomStages(opts) ==
    IF Truthy(opts.middleware) /\ Len(opts.middleware.v) > 0
    THEN [i \in DOMAIN opts.middleware.v |-> CustomStage(opts.middleware.v[i])]
    ELSE <<>>

\* a variant that runs the custom middleware before the auth stages
MiddlewaresCustomFirst(opts, hasAuthMiddleware) ==
    CustomStages(opts) \o AuthStages(opts, hasAuthMiddleware) \o <<DispatchStage(opts)>>

Middlewares(opts, hasAuthMiddleware) ==
    AuthStages(opts, hasAuthMiddleware) \o CustomStages(opts) \o <<DispatchStage(opts)>>

-----------------------------------------------------------------------------
(* Caller-supplied functions *)

EMPTY_USER == Obj([id |-> Str(""), roles |-> Arr(<<>>), scopes |-> Arr(<<>>)])

\* the users a caller's token validator knows
UserAdmin ==
    Obj([id |-> Str("u1"),
         roles |-> Arr(<<Str("admin")>>),
         scopes |-> Arr(<<Str("read"), Str("write")>>),
         companies |-> Arr(<<Str("c1"), Str("c2")>>),
         projectRoles |-> Obj([p1 |-> Str("owner")])])

UserPlain ==
    Obj([id |-> Str("u2"),
         roles |-> Arr(<<Str("user")>>),
         scopes |-> Arr(<<Str("read")>>),
         companies |-> Arr(<<Str("c2")>>)])

(* What a call of a token validator yields: a returned (or resolved) value, *)
(* or a thrown error (or rejection) with its message.                       *)
Returned(val) == [ok |-> TRUE, value |-> val]
Raised(err)   == [ok |-> FALSE, err |-> err]

\* ApiMiddleware.tokenValidator as shipped: every token is an anonymous user
DefaultTokenValidator(token) == Returned(EMPTY_USER)

\* a validator installed by the caller (ApiMiddleware.tokenValidator = ...)
CallerTokenValidator(token) ==
    CASE token = "tA" -> Returned(UserAdmin)
      [] token = "tB" -> Returned(UserPlain)
      [] token = ""   -> Raised("denied")           \* throw 'denied'
      [] OTHER        -> Raised("jwt malformed")    \* throw new Error('jwt malformed')

\* a validator that looks the token up and hands back what it found:
\* a user, null (a row without a user) or undefined (nothing found)
LookupTokenValidator(token) ==
    CASE token = "tA" -> Returned(UserAdmin)
      [] token = "tB" -> Returned(Null)
      [] OTHER        -> Returned(Undefined)

\* a validator that hands back the verified token's payload as the user
\* (jwt.verify(token, secret) as AuthenticatedUser): the payload of tB
\* carries no roles and no scopes
VerifyTokenValidator(token) ==
    CASE token = "tA" -> Returned(UserAdmin)
      [] token = "tB" -> Returned(Obj([id |-> Str("u3")]))
      [] OTHER        -> Raised("jwt malformed")

TokenValidators == {"default", "caller"}

CallTokenValidator(validator, token) ==
    IF validator = "default" THEN DefaultTokenValidator(token)
    ELSE IF validator = "lookup" THEN LookupTokenValidator(token)
    ELSE IF validator = "verify" THEN VerifyTokenValidator(token)
    ELSE CallerTokenValidator(token)

\* what a claim rule's custom validator may do with (claimValue, paramValue)
ValidatorOutcomes == {Returned(Bool(TRUE)), Returned(Bool(FALSE)), Raised("validator failed")}

\* what a custom middleware may do: next(), respond itself, next(err), throw
CustomOutcomes == {"next", "respond", "error", "throw"}

CustomResponse == [status |-> 429, body |-> [error |-> "Too Many Requests", details |-> NoProps]]

\* what the user handler may do: respond, throw, or return a rejected promise
HandlerOutcomes == {"respond", "throw", "reject"}

\* the error value the handler threw or rejected with
HandlerError(outcome) ==
    IF outcome = "throw" THEN "handler threw" ELSE "handler rejected"

HandlerResponse == ApiSuccess([success |-> TRUE], 200)

-----------------------------------------------------------------------------
(* Running a request through a pipeline *)

NoCall == [validator |-> "none"]
NoRequest == [headers |-> [authorization |-> NoHeader], params |-> Obj(NoProps),
              query |-> Obj(NoProps), body |-> Undefined, user |-> Undefined]

\* the stages a request passes, in the order the router's stack holds them
RECURSIVE Flatten(_)
Flatten(stack) ==
    IF stack = <<>> THEN <<>> ELSE Head(stack).stages \o Flatten(Tail(stack))

HasRoute(stack) == \E i \in DOMAIN stack : stack[i].layer = "route"

\* async function stages turn an exception in their body into a rejection
IsAsyncStage(stage) == stage.k \in {"authentication", "claim", "dispatch"}

\* In a composed chain a stage runs inside the next() call of the one before;
\* the closest earlier async stage is the frame an exception unwinds to
\* (0: it leaves the composed middleware).
Catcher(j) ==
    LET frames == { i \in 1..(j - 1) : IsAsyncStage(pipeline[i]) }
    IN  IF frames = {} THEN 0 ELSE CHOOSE i \in frames : \A x \in frames : x <= i

\* stage i called next()
Continues(i) ==
    /\ continued' = Append(continued, i)
    /\ pos' = i + 1
    /\ pc' = IF i < Len(pipeline) THEN "run" ELSE "done"
    /\ UNCHANGED << responses, nextErrors, escaped >>

\* stage i emitted a response and returned
Responds(i, resp) ==
    /\ responses' = Append(responses, [by |-> i, resp |-> resp])
    /\ pc' = "done"
    /\ UNCHANGED << continued, pos, nextErrors, escaped >>

\* a variant in which the chain goes on to the next stage after next(err)
PassesErrorAndGoesOn(i, err) ==
    /\ nextErrors' = Append(nextErrors, [by |-> i, err |-> err])
    /\ pos' = i + 1
    /\ pc' = IF i < Len(pipeline) THEN "run" ELSE "done"
    /\ UNCHANGED << continued, responses, escaped >>

\* stage i called next(err)
PassesError(i, err) ==
    /\ nextErrors' = Append(nextErrors, [by |-> i, err |-> err])
    /\ pc' = "done"
    /\ UNCHANGED << continued, pos, responses, escaped >>

\* the promise of async stage i rejected: nothing handles it (express 4)
Rejects(i, err) ==
    /\ escaped' = Append(escaped, [by |-> i, err |-> err])
    /\ pc' = "done"
    /\ UNCHANGED << continued, pos, responses, nextErrors >>

\* an exception left the body of the synchronous stage j
Throws(j, err) ==
    IF mode = "express" \/ Catcher(j) = 0
    THEN PassesError(j, err)          \* the router's layer catches it: next(err)
    ELSE IF pipeline[Catcher(j)].k = "authentication"
    THEN \* it unwinds into authMiddleware's try block around next()
         Responds(Catcher(j), AuthenticationFailed(apiConfig, err).resp)
    ELSE Rejects(Catcher(j), err)

Outcome(i, r) ==
    CASE r.act = "continue" -> Continues(i)
      [] r.act = "respond"  -> Responds(i, r.resp)
      [] r.act = "throw"    -> Throws(i, r.err)

StartRequest(r) ==
    /\ pc \in {"idle", "done"}
    /\ HasRoute(router.stack)
    /\ pipeline' = Flatten(router.stack)
    /\ received' = r
    /\ req' = r
    /\ pos' = 1
    /\ pc' = "run"
    /\ inflight' = NoCall
    /\ started' = <<>> /\ continued' = <<>> /\ responses' = <<>>
    /\ nextErrors' = <<>> /\ escaped' = <<>> /\ handlerCalls' = <<>>
    /\ validatorCalls' = <<>> /\ raised' = <<>>
    /\ UNCHANGED << configVars, routeVars, mode, concVars >>

AtStage(kind) == pc = "run" /\ pos \in DOMAIN pipeline /\ pipeline[pos].k = kind

\* authMiddleware, from its entry to the await of the token validator
RunAuthentication ==
    /\ AtStage("authentication")
    /\ started' = Append(started, pos)
    /\ LET r == AuthenticationStart(req, apiConfig, tokenValidator)
       IN  IF r.act = "await"
           THEN /\ inflight' = r.call
                /\ validatorCalls' = Append(validatorCalls, [by |-> pos, call |-> r.call])
                /\ pc' = "awaitToken"
                /\ UNCHANGED << continued, pos, responses, nextErrors, escaped >>
           ELSE /\ inflight' = NoCall
                /\ validatorCalls' = validatorCalls
                /\ Outcome(pos, r)
    /\ UNCHANGED << configVars, routeVars, mode, concVars, pipeline, received, req,
                    handlerCalls, raised >>

\* authMiddleware, after the token validator settled
ResumeAuthentication ==
    /\ pc = "awaitToken"
    /\ LET result == CallTokenValidator(inflight.validator, inflight.token)
       IN  IF result.ok
           THEN /\ req' = [req EXCEPT !.user = result.value]
                /\ raised' = raised
                /\ Continues(pos)
           ELSE /\ req' = req
                /\ raised' = Append(raised, [fn |-> "tokenValidator", err |-> result.err])
                /\ Outcome(pos, AuthenticationFailed(apiConfig, result.err))
    /\ inflight' = NoCall
    /\ UNCHANGED << configVars, routeVars, mode, concVars, pipeline, received, started,
                    handlerCalls, validatorCalls >>

RunRole ==
    /\ AtStage("role")
    /\ started' = Append(started, pos)
    /\ Outcome(pos, RoleMiddleware(pipeline[pos].roles, req, apiConfig))
    /\ UNCHANGED << configVars, routeVars, mode, concVars, pipeline, received, req, inflight,
                    handlerCalls, validatorCalls, raised >>

RunScope ==
    /\ AtStage("scope")
    /\ started' = Append(started, pos)
    /\ Outcome(pos, ScopeMiddleware(pipeline[pos].scopes, req, apiConfig))
    /\ UNCHANGED << configVars, routeVars, mode, concVars, pipeline, received, req, inflight,
                    handlerCalls, validatorCalls, raised >>

\* claimValidationMiddleware, to its end or to the await of a custom validator
RunClaim ==
    /\ AtStage("claim")
    /\ started' = Append(started, pos)
    /\ LET r == ClaimValidationStart(pipeline[pos].rule, req, apiConfig)
       IN  IF r.act = "await"
           THEN /\ inflight' = r.call
                /\ validatorCalls' = Append(validatorCalls, [by |-> pos, call |-> r.call])
                /\ pc' = "awaitClaim"
                /\ UNCHANGED << continued, pos, responses, nextErrors, escaped >>
           ELSE /\ inflight' = NoCall
                /\ validatorCalls' = validatorCalls
                /\ Outcome(pos, r)
    /\ UNCHANGED << configVars, routeVars, mode, concVars, pipeline, received, req,
                    handlerCalls, raised >>

\* claimValidationMiddleware, after its custom validator settled
ResumeClaim(result) ==
    /\ pc = "awaitClaim"
    /\ IF result.ok
       THEN Outcome(pos, ClaimVerdict(pipeline[pos].rule, Truthy(result.value), apiConfig))
       ELSE Rejects(pos, result.err)
    /\ raised' = IF result.ok THEN raised
                 ELSE Append(raised, [fn |-> "claimValidator", err |-> result.err])
    /\ inflight' = NoCall
    /\ UNCHANGED << configVars, routeVars, mode, concVars, pipeline, received, req, started,
                    handlerCalls, validatorCalls >>

RunCustom(outcome) ==
    /\ AtStage("custom")
    /\ started' = Append(started, pos)
    /\ CASE outcome = "next"    -> Continues(pos)
         [] outcome = "respond" -> Responds(pos, CustomResponse)
         [] outcome = "error"   -> PassesError(pos, "middleware error")
         [] outcome = "throw"   -> Throws(pos, "middleware threw")
    /\ raised' = IF outcome = "throw"
                 THEN Append(raised, [fn |-> "middleware", err |-> "middleware threw"])
                 ELSE raised
    /\ UNCHANGED << configVars, routeVars, mode, concVars, pipeline, received, req, inflight,
                    handlerCalls, validatorCalls >>

\* the validation-and-dispatch stage, to its 400 or to the await of the handler
RunDispatch ==
    /\ AtStage("dispatch")
    /\ started' = Append(started, pos)
    /\ LET r == ValidateAndDispatch(pipeline[pos], req)
       IN  /\ req' = r.request
           /\ IF r.act = "await"
              THEN /\ handlerCalls' = Append(handlerCalls, r.request)
                   /\ pc' = "awaitHandler"
                   /\ UNCHANGED << continued, pos, responses, nextErrors, escaped >>
              ELSE /\ handlerCalls' = handlerCalls
                   /\ Responds(pos, r.resp)
    /\ UNCHANGED << configVars, routeVars, mode, concVars, pipeline, received, inflight,
                    validatorCalls, raised >>

\* a variant whose catch answers 500 itself instead of calling next(error)
HandlerReturnsAnswered(outcome) ==
    /\ pc = "awaitHandler"
    /\ IF outcome = "respond"
       THEN /\ Responds(pos, HandlerResponse)
            /\ raised' = raised
       ELSE /\ Responds(pos, ApiError("Server Error",
                                      [message |-> "Internal Server Error"], 500))
            /\ raised' = Append(raised, [fn |-> "handler", err |-> HandlerError(outcome)])
    /\ UNCHANGED << configVars, routeVars, mode, concVars, pipeline, received, req, inflight,
                    started, handlerCalls, validatorCalls >>

\* the handler settled: it responded, or the stage's catch calls next(error)
HandlerReturns(outcome) ==
    /\ pc = "awaitHandler"
    /\ IF outcome = "respond"
       THEN /\ Responds(pos, HandlerResponse)
            /\ raised' = raised
       ELSE /\ PassesError(pos, HandlerError(outcome))
            /\ raised' = Append(raised, [fn |-> "handler", err |-> HandlerError(outcome)])
    /\ UNCHANGED << configVars, routeVars, mode, concVars, pipeline, received, req, inflight,
                    started, handlerCalls, validatorCalls >>

RunRequest ==
    \/ RunAuthentication
    \/ ResumeAuthentication
    \/ RunRole
    \/ RunScope
    \/ RunClaim
    \/ \E result \in ValidatorOutcomes : ResumeClaim(result)
    \/ \E outcome \in CustomOutcomes : RunCustom(outcome)
    \/ RunDispatch
    \/ \E outcome \in HandlerOutcomes : HandlerReturns(outcome)

-----------------------------------------------------------------------------
(* Route definitions the model compiles *)

NotSet == [t |-> "notset"]

\* an object holding the keys of K whose value P(k) is set
ObjWith(K, P(_)) == Obj([k \in { x \in K : P(x).t # "notset" } |-> P(k)])

\* example.ts: the company claim, checked by the default policy
CompanyRule ==
    [ userClaimPath |-> <<"companies">>, routeParamName |-> "companyId",
      validator |-> Undefined,
      description |-> Str("User must have access to the specified company") ]

\* a claim checked by a custom validator
ProjectRule ==
    [ userClaimPath |-> <<"projectRoles">>, routeParamName |-> "projectId",
      validator |-> Fn("isOwner"), description |-> Undefined ]

ClaimRules == {CompanyRule, ProjectRule}

ClaimLists == UNION { [1..n -> ClaimRules] : n \in 0..MaxClaims }

RequiresAuthChoices == {NotSet, Bool(TRUE), Bool(FALSE)}
RoleChoices   == {NotSet, Str("admin"), Arr(<<Str("admin"), Str("editor")>>)}
ScopeChoices  == {NotSet, Arr(<<Str("read"), Str("write")>>)}
ClaimChoices  == {NotSet} \cup { Arr(l) : l \in ClaimLists }

Authorization(roles, scopes, claims) ==
    LET P(k) == CASE k = "roles" -> roles [] k = "scopes" -> scopes [] OTHER -> claims
    IN  ObjWith({"roles", "scopes", "claims"}, P)

AuthorizationChoices ==
    {NotSet} \cup { Authorization(r, sc, c) :
                      r \in RoleChoices, sc \in ScopeChoices, c \in ClaimChoices }

AuthPolicy(requiresAuthentication, authorization) ==
    LET P(k) == IF k = "requiresAuthentication" THEN requiresAuthentication
                ELSE authorization
    IN  ObjWith({"requiresAuthentication", "authorization"}, P)

AuthChoices ==
    {Undefined} \cup { AuthPolicy(ra, az) :
                         ra \in RequiresAuthChoices, az \in AuthorizationChoices }

MiddlewareChoices ==
    {Undefined} \cup { Arr([i \in 1..n |-> Fn("custom")]) : n \in 1..MaxCustom }

ParamsSchema == Schema(<<"companyId">>)
QuerySchema  == Schema(<<"page">>)
BodySchema   == Schema(<<"email", "name">>)
OkSchema     == Schema(<<"id">>)

CompanyPath == <<Lit("company"), Param("companyId")>>

RouteDefinition(auth, middleware, params, query, body, response) ==
    [ method |-> "post", path |-> CompanyPath, swaggerPath |-> Undefined,
      params |-> params, query |-> query, body |-> body,
      response |-> response,
      summary |-> Undefined, description |-> Undefined, tags |-> Undefined,
      auth |-> auth, middleware |-> middleware ]

\* the definitions of the main specification: every auth policy, with no
\* schema or with all three
Definitions ==
    { RouteDefinition(a, m, sch[1], sch[2], sch[3], Obj([x \in {"200"} |-> OkSchema])) :
        a \in AuthChoices, m \in MiddlewareChoices,
        sch \in { <<Undefined, Undefined, Undefined>>,
                  <<ParamsSchema, QuerySchema, BodySchema>> } }

\* the caller keeps no object of its own
NoCallerObjects ==
    [ response |-> Undefined, auth |-> Undefined,
      written |-> [response |-> Undefined, auth |-> Undefined] ]

NoOptions == RouteDefinition(Undefined, Undefined, Undefined, Undefined, Undefined,
                             Obj(NoProps))

-----------------------------------------------------------------------------
(* Requests *)

AuthorizationHeaders ==
    { NoHeader, Header(<<"Bearer", "tA">>), Header(<<"Bearer", "tB">>),
      Header(<<"Bearer", "expired">>) }

Request(authorization, params, query, body) ==
    [ headers |-> [authorization |-> authorization], params |-> params,
      query |-> query, body |-> body, user |-> Undefined ]

GoodQuery == Obj([page |-> Str("1"), debug |-> Str("on")])
GoodBody  == Obj([email |-> Str("a@b.c"), name |-> Str("x")])

Requests ==
    { Request(h, p, GoodQuery, GoodBody) :
        h \in AuthorizationHeaders,
        p \in { Obj([companyId |-> Str("c1"), projectId |-> Str("p1")]),
                Obj([projectId |-> Str("p1")]) } }

-----------------------------------------------------------------------------
(* Declaring and attaching a route *)

\* defineApiRoute(options): 400 injection or warning, normalization,
\* registration; options is the caller's object, changed in place
Compile(d) ==
    /\ ~compiled
    /\ pc = "idle"
    /\ declared' = d
    /\ options' = normalizeAuthOptions(InjectValidationError(d))
    /\ warnings' = IF WarnsCustom400(d) THEN warnings + 1 ELSE warnings
    /\ registry' = Append(registry,
                      registerWithOpenAPI(normalizeAuthOptions(InjectValidationError(d))))
    /\ compiled' = TRUE
    /\ UNCHANGED << configVars, router, mode, concVars, runVars >>

UseLayer(stage) == [layer |-> "use", stages |-> <<stage>>]
RouteLayer(method, path, stages) ==
    [layer |-> "route", method |-> method, path |-> path, stages |-> stages]

\* ApiMiddleware.useAuth(router, ApiMiddleware.authentication())
UseAuth ==
    /\ pc = "idle"
    /\ ~router.hasAuthMiddleware
    /\ router' = [ hasAuthMiddleware |-> TRUE,
                   stack |-> Append(router.stack, UseLayer(AuthenticationStage)) ]
    /\ UNCHANGED << configVars, options, declared, compiled, warnings, registry,
                    mode, concVars, runVars >>

\* the attacher returned by defineApiRoute(options)(handler), applied to the router
Attach ==
    /\ compiled
    /\ pc = "idle"
    /\ ~HasRoute(router.stack)
    /\ router' = [ router EXCEPT !.stack =
                     Append(@, RouteLayer(options.method, options.path,
                                  Middlewares(options, router.hasAuthMiddleware))) ]
    /\ UNCHANGED << configVars, options, declared, compiled, warnings, registry,
                    mode, concVars, runVars >>

Init ==
    /\ apiConfig = defaultApiConfig
    /\ tokenValidator \in TokenValidators
    /\ options = NoOptions
    /\ declared = NoOptions
    /\ compiled = FALSE
    /\ warnings = 0
    /\ registry = <<>>
    /\ router = [hasAuthMiddleware |-> FALSE, stack |-> <<>>]
    /\ mode = "express"
    /\ pipeline = <<>>
    /\ received = NoRequest
    /\ req = NoRequest
    /\ pos = 0
    /\ pc = "idle"
    /\ inflight = NoCall
    /\ started = <<>> /\ continued = <<>> /\ responses = <<>>
    /\ nextErrors = <<>> /\ escaped = <<>> /\ handlerCalls = <<>>
    /\ validatorCalls = <<>> /\ raised = <<>>
    /\ contexts = <<>> /\ heap = <<EMPTY_USER>>
    /\ envelope = NoEnvelope
    /\ callerObjects = NoCallerObjects
    /\ settings = NoSettings

Next ==
    \/ \E d \in Definitions : Compile(d)
    \/ UseAuth
    \/ Attach
    \/ \E r \in Requests : StartRequest(r)
    \/ RunRequest

Spec == Init /\ [][Next]_vars

-----------------------------------------------------------------------------
(* Single stages on many inputs: the stage under test runs first, on a      *)
(* request that may already carry a user, and is followed by a              *)
(* validation-and-dispatch stage without schemas (so the handler follows).  *)

NoSchemas == [params |-> Undefined, query |-> Undefined, body |-> Undefined]

UserWith(roles, scopes, claim) ==
    Obj([id |-> Str("u"), roles |-> roles, scopes |-> scopes, claim |-> claim])

NameLists ==
    { <<>>, <<Str("admin")>>, <<Str("user")>>, <<Str("editor"), Str("user")>>,
      <<Str("admin"), Str("editor")>> }

RequestOf(user, params) ==
    [ headers |-> [authorization |-> NoHeader], params |-> params,
      query |-> GoodQuery, body |-> GoodBody, user |-> user ]

StageCase(stage, request) ==
    [ pipeline |-> <<stage, DispatchStage(NoSchemas)>>, request |-> request ]

RoleCases ==
    { StageCase(RoleStage(r), RequestOf(u, Obj(NoProps))) :
        r \in {Str("admin"), Str("editor")} \cup { Arr(l) : l \in NameLists },
        u \in {Undefined} \cup { UserWith(Arr(l), Arr(<<>>), Undefined) : l \in NameLists } }

ScopeCases ==
    { StageCase(ScopeStage(sc), RequestOf(u, Obj(NoProps))) :
        sc \in {Str("admin"), Str("editor")} \cup { Arr(l) : l \in NameLists },
        u \in {Undefined} \cup { UserWith(Arr(<<>>), Arr(l), Undefined) : l \in NameLists } }

\* what a user's claim may hold
ClaimValues ==
    { Arr(<<Str("c1"), Str("c2")>>), Arr(<<>>), Arr(<<Num(1), Num(2)>>),
      Obj([c1 |-> Str("owner")]), BareObj([c1 |-> Str("owner")]), Obj(NoProps),
      Obj([c1 |-> Obj([id |-> Str("c1")])]), Obj([c1 |-> Null]),
      Str("c1"), Str("1"), Num(1), Bool(TRUE), Null, Undefined }

\* the value of the route parameter companyId ("" and absent included)
ParamValues == {Str("c1"), Str("c3"), Str("1"), Str("constructor"), Str(""), Undefined}

ParamsOf(val) ==
    IF val.t = "undefined" THEN Obj(NoProps) ELSE Obj([companyId |-> val])

ClaimRuleOn(path, validator) ==
    [ userClaimPath |-> path, routeParamName |-> "companyId",
      validator |-> validator, description |-> Undefined ]

StageClaimRules ==
    { ClaimRuleOn(<<"claim">>, Undefined), ClaimRuleOn(<<"claim">>, Fn("isOwner")),
      ClaimRuleOn(<<"claim", "c1", "id">>, Undefined),
      ClaimRuleOn(<<"claim", "c1", "id">>, Fn("isOwner")),
      ClaimRuleOn(<<"nothing", "c1">>, Undefined) }

ClaimCases ==
    { StageCase(ClaimStage(rule), RequestOf(u, ParamsOf(pv))) :
        rule \in StageClaimRules, pv \in ParamValues,
        u \in {Undefined} \cup
              { UserWith(Arr(<<>>), Arr(<<>>), cv) : cv \in ClaimValues } }

StageHeaders ==
    { NoHeader, Header(<<"">>), Header(<<"Bearer">>), Header(<<"Basic", "tA">>),
      Header(<<"bearer", "tA">>), Header(<<"Bearer", "">>), Header(<<"Bearer", "tA">>),
      Header(<<"Bearer", "tB">>), Header(<<"Bearer", "expired">>),
      Header(<<"Bearer", "tA", "tB">>), Header(<<"Bearer", "", "tA">>) }

AuthenticationCases ==
    { StageCase(AuthenticationStage, Request(h, Obj(NoProps), GoodQuery, GoodBody)) :
        h \in StageHeaders }

CustomCases ==
    { StageCase(CustomStage(Fn("custom")), RequestOf(Undefined, Obj(NoProps))) }

SchemaSets ==
    { [params |-> p, query |-> q, body |-> b] :
        p \in {Undefined, ParamsSchema}, q \in {Undefined, QuerySchema},
        b \in {Undefined, BodySchema} }

RawParams == { Obj([companyId |-> Str("c1"), extra |-> Str("x")]), Obj(NoProps) }
RawQueries == { GoodQuery, Obj([debug |-> Str("on")]) }
RawBodies == { GoodBody, Obj([name |-> Str("x")]), Undefined }

DispatchCases ==
    { [ pipeline |-> <<DispatchStage(sch)>>,
        request |-> Request(NoHeader, p, q, b) ] :
        sch \in SchemaSets, p \in RawParams, q \in RawQueries, b \in RawBodies }

StageCases ==
    RoleCases \cup ScopeCases \cup ClaimCases \cup AuthenticationCases
      \cup CustomCases \cup DispatchCases

\* the framework hands a request to the first stage of a pipeline
StartPipeline(c) ==
    /\ pc = "idle"
    /\ pipeline' = c.pipeline
    /\ received' = c.request
    /\ req' = c.request
    /\ pos' = 1
    /\ pc' = "run"
    /\ inflight' = NoCall
    /\ started' = <<>> /\ continued' = <<>> /\ responses' = <<>>
    /\ nextErrors' = <<>> /\ escaped' = <<>> /\ handlerCalls' = <<>>
    /\ validatorCalls' = <<>> /\ raised' = <<>>
    /\ UNCHANGED << configVars, routeVars, mode, concVars >>

InitStage ==
    /\ Init

NextStage ==
    \/ \E c \in StageCases : StartPipeline(c)
    \/ RunRequest

SpecStage == InitStage /\ [][NextStage]_vars

-----------------------------------------------------------------------------
(* Composed chains: composeMiddleware(list) and createAuthMiddleware(options) *)
(* call each stage from inside the next() of the one before it.               *)

\* composeMiddleware(middlewares): the stages run in list order
composeMiddleware(middlewares) == middlewares

\* createAuthMiddleware(options): authentication, then roles, then scopes
createAuthMiddleware(opts) ==
    <<AuthenticationStage>>
      \o (IF Truthy(opts.roles) THEN <<RoleStage(opts.roles)>> ELSE <<>>)
      \o (IF Truthy(opts.scopes) THEN <<ScopeStage(opts.scopes)>> ELSE <<>>)

LegacyAuthOptions ==
    { [roles |-> r, scopes |-> sc] :
        r \in {Undefined, Str("admin"), Arr(<<Str("admin"), Str("editor")>>)},
        sc \in {Undefined, Str("read"), Arr(<<Str("read"), Str("write")>>)} }

ComposableStages ==
    { AuthenticationStage, RoleStage(Str("admin")), ScopeStage(Str("read")),
      ClaimStage(CompanyRule), ClaimStage(ProjectRule), CustomStage(Fn("custom")) }

MaxComposed == 3    \* middlewares handed to composeMiddleware

ComposedPipelines ==
    { createAuthMiddleware(o) : o \in LegacyAuthOptions }
      \cup { composeMiddleware(l) :
               l \in UNION { [1..n -> ComposableStages] : n \in 0..MaxComposed } }

ComposedCases ==
    { [pipeline |-> pl, request |-> r] : pl \in ComposedPipelines \ {<<>>}, r \in Requests }

InitCompose ==
    /\ apiConfig = defaultApiConfig
    /\ tokenValidator \in TokenValidators
    /\ options = NoOptions
    /\ declared = NoOptions
    /\ compiled = FALSE
    /\ warnings = 0
    /\ registry = <<>>
    /\ router = [hasAuthMiddleware |-> FALSE, stack |-> <<>>]
    /\ mode = "composed"
    /\ pipeline = <<>>
    /\ received = NoRequest
    /\ req = NoRequest
    /\ pos = 0
    /\ pc = "idle"
    /\ inflight = NoCall
    /\ started = <<>> /\ continued = <<>> /\ responses = <<>>
    /\ nextErrors = <<>> /\ escaped = <<>> /\ handlerCalls = <<>>
    /\ validatorCalls = <<>> /\ raised = <<>>
    /\ contexts = <<>> /\ heap = <<EMPTY_USER>>
    /\ envelope = NoEnvelope
    /\ callerObjects = NoCallerObjects
    /\ settings = NoSettings

NextCompose ==
    \/ \E c \in ComposedCases : StartPipeline(c)
    \/ RunAuthentication
    \/ ResumeAuthentication
    \/ RunRole
    \/ RunScope
    \/ RunClaim
    \/ \E result \in ValidatorOutcomes : ResumeClaim(result)
    \/ \E outcome \in CustomOutcomes : RunCustom(outcome)

SpecCompose == InitCompose /\ [][NextCompose]_vars

-----------------------------------------------------------------------------
(* Properties *)

\* the route layer the attacher installed, and whether useAuth came first
Attached == HasRoute(router.stack)
RouteIndex == CHOOSE i \in DOMAIN router.stack : router.stack[i].layer = "route"
Installed == router.stack[RouteIndex].stages
MarkedBeforeAttach ==
    \E i \in 1..(RouteIndex - 1) : router.stack[i].layer = "use"

Rank(stage) ==
    CASE stage.k = "authentication" -> 1
      [] stage.k = "role"     -> 2
      [] stage.k = "scope"    -> 3
      [] stage.k = "claim"    -> 4
      [] stage.k = "custom"   -> 5
      [] stage.k = "dispatch" -> 6

OfKind(stages, kind) == SelectSeq(stages, LAMBDA st : st.k = kind)

DeclaredAuthorization == Get(declared.auth, "authorization")
DeclaredRoles  == Get(DeclaredAuthorization, "roles")
DeclaredScopes == Get(DeclaredAuthorization, "scopes")
DeclaredClaims ==
    IF Get(DeclaredAuthorization, "claims").t = "array"
    THEN Get(DeclaredAuthorization, "claims").v ELSE <<>>
DeclaredMiddleware ==
    IF declared.middleware.t = "array" THEN declared.middleware.v ELSE <<>>

NormalizedRequiresAuthentication ==
    options.auth.t = "object"
      /\ Get(options.auth, "requiresAuthentication") = Bool(TRUE)

StageIndexes == DOMAIN pipeline
ContinuedTimes(i) == Cardinality({ m \in DOMAIN continued : continued[m] = i })
RespondedTimes(i) == Cardinality({ m \in DOMAIN responses : responses[m].by = i })

\* C2: every stage ends in exactly one of two ways: it continues once and
\* emits nothing, or it emits one terminal response and does not continue;
\* after a terminal response no later stage and no handler runs.
C2_ContinueOrRespond ==
    /\ \A i \in StageIndexes :
         /\ ContinuedTimes(i) + RespondedTimes(i) <= 1
         /\ (ContinuedTimes(i) + RespondedTimes(i) = 1) => i \in Range(started)
    /\ Len(responses) <= 1
    /\ responses # <<>> => pc = "done"

\* C3: on a route whose normalized policy requires authentication, the handler
\* is invoked only for a request whose Authorization header is
\* "Bearer <token>" with a token the current validator accepts, and the
\* handler sees the validator's result as the request's user.
C3_HandlerOnlyAuthenticated ==
    (Attached /\ NormalizedRequiresAuthentication /\ handlerCalls # <<>>) =>
        LET header == received.headers.authorization
        IN  /\ header.t = "header"
            /\ Len(header.words) >= 2
            /\ header.words[1] = "Bearer"
            /\ CallTokenValidator(tokenValidator, header.words[2]).ok
            /\ \A n \in DOMAIN handlerCalls :
                 handlerCalls[n].user =
                    CallTokenValidator(tokenValidator, header.words[2]).value

\* the handler ran behind router-level authentication, and behind the
\* route's own authentication stage
C3_Witness ==
    /\ Attached /\ NormalizedRequiresAuthentication
    /\ MarkedBeforeAttach
    /\ handlerCalls # <<>>
    /\ handlerCalls[1].user = UserAdmin

DeclaresAuthorizationRule ==
    \/ DeclaredRoles.t # "undefined"
    \/ DeclaredScopes.t # "undefined"
    \/ DeclaredClaims # <<>>

\* C4: once compiled, a definition that declares roles, scopes or a non-empty
\* claims list requires authentication whatever it declared, and the attached
\* pipeline holds the authentication stage (unless useAuth marked the router)
\* and a stage for every declared role, scope and claim rule.
C4_AuthorizationImpliesAuthentication ==
    (compiled /\ DeclaresAuthorizationRule) =>
        /\ Get(options.auth, "requiresAuthentication") = Bool(TRUE)
        /\ Attached =>
             /\ MarkedBeforeAttach \/ Installed[1].k = "authentication"
             /\ DeclaredRoles.t # "undefined" =>
                  \E i \in DOMAIN Installed : Installed[i] = RoleStage(DeclaredRoles)
             /\ DeclaredScopes.t # "undefined" =>
                  \E i \in DOMAIN Installed : Installed[i] = ScopeStage(DeclaredScopes)
             /\ \A c \in DOMAIN DeclaredClaims :
                  \E i \in DOMAIN Installed : Installed[i] = ClaimStage(DeclaredClaims[c])

\* a definition declaring requiresAuthentication: false with roles and a claim
\* is attached to a plain router
C4_Witness ==
    /\ Attached /\ ~MarkedBeforeAttach
    /\ Get(declared.auth, "requiresAuthentication") = Bool(FALSE)
    /\ DeclaredRoles.t # "undefined"
    /\ DeclaredClaims # <<>>
    /\ Installed[1].k = "authentication"

\* the stage under test of a single-stage run, once it has been entered
Tested(kind) == pipeline # <<>> /\ pipeline[1].k = kind /\ started # <<>>

TextSet(arr) == { arr.v[i].v : i \in DOMAIN arr.v }
RequiredNames(x) == IF x.t = "array" THEN TextSet(x) ELSE {x.v}

Forbidden403(message) ==
    [ status |-> 403, body |-> [error |-> "Forbidden", details |-> [message |-> message]] ]

\* C5: with a user attached, the role stage continues iff at least one
\* required role (a single string is a one-element list) is among the user's
\* roles; otherwise it answers 403 {error: "Forbidden", details: {message:
\* insufficient-role message}} and the handler is not invoked.
C5_RoleStage ==
    (Tested("role") /\ received.user.t = "object") =>
        IF RequiredNames(pipeline[1].roles) \cap TextSet(received.user.own.roles) # {}
        THEN /\ continued # <<>> /\ continued[1] = 1
             /\ responses = <<>> \/ responses[1].by # 1
        ELSE /\ responses = <<[by |-> 1, resp |-> Forbidden403(apiConfig.insufficientRoles)]>>
             /\ continued = <<>>
             /\ handlerCalls = <<>>
             /\ pc = "done"

\* scenario A: roles 'admin' required, the user holds only 'user'
C5_Witness ==
    /\ Tested("role")
    /\ pipeline[1].roles = Str("admin")
    /\ received.user.t = "object"
    /\ TextSet(received.user.own.roles) = {"user"}
    /\ responses # <<>> /\ responses[1].resp.status = 403

\* C6: with a user attached, the scope stage continues iff every required
\* scope (a single string is a one-element list; an empty list always passes)
\* is among the user's scopes; otherwise it answers 403 with the
\* insufficient-scope message and the handler is not invoked.
C6_ScopeStage ==
    (Tested("scope") /\ received.user.t = "object") =>
        IF RequiredNames(pipeline[1].scopes) \subseteq TextSet(received.user.own.scopes)
        THEN /\ continued # <<>> /\ continued[1] = 1
             /\ responses = <<>> \/ responses[1].by # 1
        ELSE /\ responses = <<[by |-> 1, resp |-> Forbidden403(apiConfig.insufficientScopes)]>>
             /\ continued = <<>>
             /\ handlerCalls = <<>>
             /\ pc = "done"

\* two scopes required, the user holds one of them
C6_Witness ==
    /\ Tested("scope")
    /\ pipeline[1].scopes = Arr(<<Str("admin"), Str("editor")>>)
    /\ received.user.t = "object"
    /\ TextSet(received.user.own.scopes) = {"admin"}
    /\ responses # <<>> /\ responses[1].resp.status = 403

\* a claim stage under the default policy, on the claim held at user.claim,
\* with a user attached and the route parameter present
DefaultClaimRun ==
    /\ Tested("claim")
    /\ pipeline[1].rule = ClaimRuleOn(<<"claim">>, Undefined)
    /\ received.user.t = "object"
    /\ "companyId" \in DOMAIN received.params.own
    /\ received.params.own.companyId.v # ""

TestedClaimValue == received.user.own.claim
TestedParam == received.params.own.companyId

ClaimDenied403 ==
    Forbidden403("Access denied: insufficient claim for 'companyId'")

ClaimStagePassed ==
    /\ continued # <<>> /\ continued[1] = 1
    /\ responses = <<>> \/ responses[1].by # 1

ClaimStageDenied ==
    /\ responses = <<[by |-> 1, resp |-> ClaimDenied403]>>
    /\ continued = <<>>
    /\ handlerCalls = <<>>
    /\ pc = "done"

\* C7: under the default policy a claim value that is a non-null, non-array
\* object passes iff the route parameter's value is one of its keys; every
\* other parameter value gets 403 and the handler is not invoked.
C7_ObjectClaimKeys ==
    (DefaultClaimRun /\ TestedClaimValue.t = "object") =>
        IF TestedParam.v \in DOMAIN TestedClaimValue.own
        THEN ClaimStagePassed
        ELSE ClaimStageDenied

\* C8: under the default policy an array claim passes iff it contains the
\* parameter's value as a string, a primitive claim passes iff it is strictly
\* equal to the parameter's value; otherwise 403 with the insufficient-claim
\* message naming the parameter.  When the stage passes, the request's params
\* are as received and the handler is reached.
C8_ArrayAndPrimitiveClaims ==
    (DefaultClaimRun /\ TestedClaimValue.t # "object") =>
        IF \/ /\ TestedClaimValue.t = "array"
              /\ \E i \in DOMAIN TestedClaimValue.v :
                    /\ TestedClaimValue.v[i].t = "string"
                    /\ TestedClaimValue.v[i].v = TestedParam.v
           \/ /\ TestedClaimValue.t = "string"
              /\ TestedClaimValue.v = TestedParam.v
        THEN /\ ClaimStagePassed
             /\ req.params = received.params
             /\ pc \in {"awaitHandler", "done"} =>
                  /\ Len(handlerCalls) = 1
                  /\ handlerCalls[1].params = received.params
        ELSE ClaimStageDenied

\* scenario C: companies ["c1","c2"], companyId "c1": the handler is reached
C8_Witness ==
    /\ DefaultClaimRun
    /\ TestedClaimValue = Arr(<<Str("c1"), Str("c2")>>)
    /\ TestedParam = Str("c1")
    /\ handlerCalls # <<>>

\* C9: when the token validator or a claim rule's custom validator throws or
\* rejects, the calling stage answers with a terminal auth failure, does not
\* continue, and nothing escapes the stage.
C9_ValidatorFailureIsRejected ==
    /\ escaped = <<>>
    /\ (Tested("authentication") /\ pc = "done" /\ pos = 1
          /\ ~HeaderRejected(received.headers.authorization)
          /\ ~CallTokenValidator(tokenValidator,
                 ExtractToken(received.headers.authorization)).ok) =>
         /\ Len(responses) = 1 /\ responses[1].resp.status = 401
         /\ continued = <<>> /\ handlerCalls = <<>>

DeclaredSchema(name) == pipeline[1][name].t = "zod"
Fails(name) == DeclaredSchema(name) /\ MissingFields(pipeline[1][name], received[name]) # {}

FirstFailing ==
    IF Fails("params") THEN "params"
    ELSE IF Fails("query") THEN "query"
    ELSE IF Fails("body") THEN "body"
    ELSE "none"

ValidationError400(name) ==
    [ status |-> 400,
      body |-> [ error |-> CASE name = "params" -> "Invalid request parameters"
                             [] name = "query"  -> "Invalid query parameters"
                             [] OTHER           -> "Invalid request body",
                 details |-> [f \in MissingFields(pipeline[1][name], received[name])
                                |-> "Required"] ] ]

\* C10: the validation-and-dispatch stage checks params, then query, then
\* body; on the first schema that fails it answers 400 with that schema's
\* errors as details, leaves the later parts unevaluated and does not invoke
\* the handler; the handler is invoked iff every declared schema passes.
C10_ValidationOrder ==
    Tested("dispatch") =>
        IF FirstFailing = "none"
        THEN /\ Len(handlerCalls) = 1
             /\ \A n \in DOMAIN responses : responses[n].resp.status # 400
        ELSE /\ responses = <<[by |-> 1, resp |-> ValidationError400(FirstFailing)]>>
             /\ handlerCalls = <<>>
             /\ pc = "done"
             /\ FirstFailing = "params" => req.query = received.query
             /\ FirstFailing \in {"params", "query"} => req.body = received.body

\* params pass, query and body both fail: the 400 reports the query
C10_Witness ==
    /\ Tested("dispatch")
    /\ DeclaredSchema("params") /\ ~Fails("params")
    /\ Fails("query") /\ Fails("body")
    /\ responses # <<>>
    /\ responses[1].resp.body.error = "Invalid query parameters"

-----------------------------------------------------------------------------
(* The method helpers Get, Post, Put, Delete, Patch: each builds the        *)
(* definition it hands to defineApiRoute from (path, options).              *)

HelperOptions(params, query, requestBody) ==
    [ requestBody |-> requestBody, response |-> Obj([x \in {"200"} |-> OkSchema]),
      params |-> params, query |-> query,
      summary |-> Undefined, description |-> Undefined, tags |-> Undefined,
      auth |-> Undefined, middleware |-> Undefined ]

\* Get(path, options, handler): params and query, no body
GetHelper(path, o) ==
    [ method |-> "get", path |-> path, swaggerPath |-> Undefined,
      response |-> o.response, params |-> o.params, query |-> o.query,
      body |-> Undefined,
      summary |-> o.summary, description |-> o.description, tags |-> o.tags,
      auth |-> o.auth, middleware |-> o.middleware ]

\* Post, Put, Delete, Patch differ in the method only: params and
\* requestBody are handed on, options.query is not
BodyHelper(method, path, o) ==
    [ method |-> method, path |-> path, swaggerPath |-> Undefined,
      params |-> o.params, body |-> o.requestBody, query |-> Undefined,
      response |-> o.response,
      summary |-> o.summary, description |-> o.description, tags |-> o.tags,
      auth |-> o.auth, middleware |-> o.middleware ]

PostHelper(path, o)   == BodyHelper("post", path, o)
PutHelper(path, o)    == BodyHelper("put", path, o)
DeleteHelper(path, o) == BodyHelper("delete", path, o)
PatchHelper(path, o)  == BodyHelper("patch", path, o)

Helpers == {"Get", "Post", "Put", "Delete", "Patch"}

CallHelper(helper, path, o) ==
    CASE helper = "Get"    -> GetHelper(path, o)
      [] helper = "Post"   -> PostHelper(path, o)
      [] helper = "Put"    -> PutHelper(path, o)
      [] helper = "Delete" -> DeleteHelper(path, o)
      [] helper = "Patch"  -> PatchHelper(path, o)

\* the options a caller may write for a helper (Get accepts no requestBody)
HelperCalls ==
    { [helper |-> "Get", options |-> HelperOptions(p, q, Undefined)] :
        p \in {Undefined, ParamsSchema}, q \in {Undefined, QuerySchema} }
    \cup
    { [helper |-> h, options |-> HelperOptions(p, q, b)] :
        h \in Helpers \ {"Get"}, p \in {Undefined, ParamsSchema},
        q \in {Undefined, QuerySchema}, b \in {Undefined, BodySchema} }

\* the schemas as the caller wrote them in the helper's options
WrittenFor(c) ==
    [ CallHelper(c.helper, CompanyPath, c.options)
        EXCEPT !.query = c.options.query, !.body = c.options.requestBody ]

\* helper(path, options, handler): defineApiRoute on the definition it builds
CompileHelper(c) ==
    /\ ~compiled
    /\ pc = "idle"
    /\ declared' = WrittenFor(c)
    /\ options' = normalizeAuthOptions(
                     InjectValidationError(CallHelper(c.helper, CompanyPath, c.options)))
    /\ warnings' = IF WarnsCustom400(CallHelper(c.helper, CompanyPath, c.options))
                   THEN warnings + 1 ELSE warnings
    /\ registry' = Append(registry, registerWithOpenAPI(normalizeAuthOptions(
                     InjectValidationError(CallHelper(c.helper, CompanyPath, c.options)))))
    /\ compiled' = TRUE
    /\ UNCHANGED << configVars, router, mode, concVars, runVars >>

HelperRequests ==
    { Request(NoHeader, p, q, b) : p \in RawParams, q \in RawQueries, b \in RawBodies }

NextHelper ==
    \/ \E c \in HelperCalls : CompileHelper(c)
    \/ Attach
    \/ \E r \in HelperRequests : StartRequest(r)
    \/ RunDispatch
    \/ \E outcome \in HandlerOutcomes : HandlerReturns(outcome)

SpecHelper == Init /\ [][NextHelper]_vars

RequestParts == {"params", "query", "body"}

\* C11: for a route declared through a method helper, each schema written in
\* the helper's options (params, query, request body) is enforced on every
\* request: the handler runs only when the request's part passes the schema,
\* it then sees the schema's output, and a failing part is answered with 400.
C11_HelperSchemasEnforced ==
    (compiled /\ pipeline # <<>> /\ pc \in {"awaitHandler", "done"}) =>
        \A part \in RequestParts :
            Truthy(declared[part]) =>
                /\ handlerCalls # <<>> =>
                     /\ MissingFields(declared[part], received[part]) = {}
                     /\ handlerCalls[1][part] = SafeParse(declared[part], received[part]).data
                /\ MissingFields(declared[part], received[part]) # {} =>
                     /\ handlerCalls = <<>>
                     /\ \E n \in DOMAIN responses : responses[n].resp.status = 400

-----------------------------------------------------------------------------
(* Declaration on many definitions: every auth policy, with the caller's    *)
(* own '400', '401', '403' responses declared or not.                       *)

CustomErrorSchema == Schema(<<"code", "message">>)

ResponseMaps ==
    { Obj([c \in {"200"} \cup own |-> IF c = "200" THEN OkSchema ELSE CustomErrorSchema]) :
        own \in SUBSET {"400", "401", "403"} }

DocDefinitions ==
    { RouteDefinition(a, Undefined, ParamsSchema, QuerySchema, Undefined, r) :
        a \in AuthChoices, r \in ResponseMaps }

NextDoc == \E d \in DocDefinitions : Compile(d)

SpecDoc == Init /\ [][NextDoc]_vars

DeclaredResponses == declared.response.own
Declares(code) == code \in DOMAIN DeclaredResponses

\* C12: compiling a definition without a '400' response puts ErrorSchema under
\* '400' and warns nobody; compiling one that declares its own '400' leaves
\* the responses as declared and warns exactly once; the documentation entry
\* registered by the same compile always carries the definition's '400'.
C12_ValidationErrorResponse ==
    compiled =>
        /\ IF Declares("400")
           THEN /\ options.response = declared.response
                /\ warnings = 1
           ELSE /\ DOMAIN options.response.own = DOMAIN DeclaredResponses \cup {"400"}
                /\ options.response.own["400"] = ErrorSchema
                /\ \A c \in DOMAIN DeclaredResponses :
                      options.response.own[c] = DeclaredResponses[c]
                /\ warnings = 0
        /\ Len(registry) = 1
        /\ "400" \in DOMAIN registry[1].responses
        /\ registry[1].responses["400"].schema = options.response.own["400"]

\* a definition with its own '400' and '401': the '400' is kept, one warning
C12_Witness ==
    /\ compiled
    /\ Declares("400") /\ Declares("401")
    /\ options.response.own["400"] = CustomErrorSchema
    /\ warnings = 1
    /\ registry[1].responses["400"].schema = CustomErrorSchema

SynthesizedResponse(code) ==
    [ description |-> IF code = "401" THEN "Unauthorized" ELSE "Forbidden",
      schema |-> Schema(<<"error", "details">>) ]

\* C19: the documentation entry has the bearerAuth security requirement iff
\* the normalized policy requires authentication; then an undeclared '401' is
\* synthesized, and an undeclared '403' is synthesized when roles, scopes or a
\* non-empty claims list is declared; declared '401'/'403' are kept as
\* declared; without an auth policy there is no security requirement and no
\* synthesized '401'/'403'.
C19_DocumentedSecurity ==
    compiled =>
        LET entry == registry[Len(registry)]
        IN  /\ entry.security = <<"bearerAuth">> <=> NormalizedRequiresAuthentication
            /\ entry.security = <<>> <=> ~NormalizedRequiresAuthentication
            /\ (NormalizedRequiresAuthentication /\ ~Declares("401")) =>
                 /\ "401" \in DOMAIN entry.responses
                 /\ entry.responses["401"] = SynthesizedResponse("401")
            /\ (NormalizedRequiresAuthentication /\ DeclaresAuthorizationRule
                  /\ ~Declares("403")) =>
                 /\ "403" \in DOMAIN entry.responses
                 /\ entry.responses["403"] = SynthesizedResponse("403")
            /\ \A code \in {"401", "403"} :
                 Declares(code) =>
                    /\ code \in DOMAIN entry.responses
                    /\ entry.responses[code].schema = DeclaredResponses[code]
            /\ declared.auth.t = "undefined" =>
                 /\ entry.security = <<>>
                 /\ \A code \in {"401", "403"} :
                      code \in DOMAIN entry.responses <=> Declares(code)

\* scenario D with roles: requiresAuthentication true, nothing declared for
\* 401/403: both are synthesized and the entry is secured
C19_Witness ==
    /\ compiled
    /\ Get(declared.auth, "requiresAuthentication") = Bool(TRUE)
    /\ DeclaredRoles = Str("admin")
    /\ ~Declares("401") /\ ~Declares("403")
    /\ registry[1].security = <<"bearerAuth">>
    /\ registry[1].responses["401"].description = "Unauthorized"
    /\ registry[1].responses["403"].description = "Forbidden"

Unauthorized401(details) ==
    [ status |-> 401, body |-> [error |-> "Unauthorized", details |-> details] ]

\* the header starts with the word Bearer followed by a space
HasBearerForm(h) == h.t = "header" /\ Len(h.words) >= 2 /\ h.words[1] = "Bearer"

MissingTokenResponse ==
    Unauthorized401([message |-> "Missing or invalid authorization token"])

\* C13: the authentication stage answers 401 with the fixed message, without
\* calling the token validator and without attaching a user, iff the
\* Authorization header is absent or is not of the form 'Bearer <token>';
\* otherwise it calls the token validator exactly once, with the token taken
\* from the header.
C13_HeaderGate ==
    Tested("authentication") =>
        IF ~HasBearerForm(received.headers.authorization)
        THEN /\ responses = <<[by |-> 1, resp |-> MissingTokenResponse]>>
             /\ validatorCalls = <<>>
             /\ req.user = received.user
             /\ continued = <<>>
             /\ pc = "done"
        ELSE /\ validatorCalls =
                  <<[by |-> 1,
                     call |-> [validator |-> tokenValidator,
                               token |-> received.headers.authorization.words[2]]]>>
             /\ \A n \in DOMAIN responses : responses[n].resp # MissingTokenResponse

\* 'Basic tA' is refused without a validator call
C13_Witness ==
    /\ Tested("authentication")
    /\ received.headers.authorization = Header(<<"Basic", "tA">>)
    /\ responses = <<[by |-> 1, resp |-> MissingTokenResponse]>>
    /\ validatorCalls = <<>>

\* the token validator's call made by the stage under test, once it settled
TokenCallSettled ==
    /\ Tested("authentication")
    /\ validatorCalls # <<>>
    /\ pc # "awaitToken"

TokenCallResult ==
    CallTokenValidator(validatorCalls[1].call.validator, validatorCalls[1].call.token)

\* C14: when the token validator returns a user the authentication stage
\* attaches exactly that user and continues; when it throws or rejects the
\* stage answers 401 {error: 'Unauthorized', details: {message: invalid-token
\* message, error: the validator's error message}}, attaches no user and does
\* not continue.
C14_ValidatorResult ==
    TokenCallSettled =>
        IF TokenCallResult.ok
        THEN /\ req.user = TokenCallResult.value
             /\ continued # <<>> /\ continued[1] = 1
             /\ raised = <<>> \/ raised[1].fn # "tokenValidator"
             /\ responses = <<>> \/ responses[1].by # 1
        ELSE /\ raised = <<[fn |-> "tokenValidator", err |-> TokenCallResult.err]>>
             /\ responses =
                  <<[by |-> 1,
                     resp |-> Unauthorized401(
                        [message |-> apiConfig.invalidToken,
                         error |-> IF TokenCallResult.err \in ThrownStrings
                                   THEN "Token validation failed"
                                   ELSE TokenCallResult.err])]>>
             /\ req.user = received.user
             /\ continued = <<>>
             /\ handlerCalls = <<>>
             /\ pc = "done"

\* the caller's validator throws Error('jwt malformed') for the token 'expired'
C14_Witness ==
    /\ TokenCallSettled
    /\ validatorCalls[1].call = [validator |-> "caller", token |-> "expired"]
    /\ responses # <<>>
    /\ responses[1].resp.body.details.error = "jwt malformed"
    /\ req.user = Undefined

-----------------------------------------------------------------------------
(* Reassigning ApiMiddleware.tokenValidator while routes are installed and  *)
(* requests are served.                                                     *)

\* ApiMiddleware.tokenValidator = validator, once a route is installed (an
\* assignment made earlier is the validator the run starts with)
SetTokenValidator(validator) ==
    /\ HasRoute(router.stack)
    /\ tokenValidator # validator
    /\ tokenValidator' = validator
    /\ UNCHANGED << apiConfig, callerObjects, settings, routeVars, mode, concVars, runVars >>

\* routes that authenticate on their own or rely on useAuth
SwapDefinitions ==
    { RouteDefinition(a, Undefined, Undefined, Undefined, Undefined,
                      Obj([x \in {"200"} |-> OkSchema])) :
        a \in {Undefined, AuthPolicy(Bool(TRUE), NotSet)} }

InitSwap == Init /\ tokenValidator = "default"

NextSwap ==
    \/ \E d \in SwapDefinitions : Compile(d)
    \/ UseAuth
    \/ Attach
    \/ \E validator \in TokenValidators : SetTokenValidator(validator)
    \/ \E r \in Requests : StartRequest(r)
    \/ RunAuthentication
    \/ ResumeAuthentication
    \/ RunDispatch
    \/ \E outcome \in HandlerOutcomes : HandlerReturns(outcome)

SpecSwap == InitSwap /\ [][NextSwap]_vars

\* C15: an authentication stage that starts after tokenValidator was
\* reassigned calls the validator installed at that moment, whenever the stage
\* was created; a call already in flight completes with the result of the
\* validator that was called.
C15_HotSwap ==
    [][ /\ (pc = "run" /\ pc' = "awaitToken") =>
              /\ inflight'.validator = tokenValidator
              /\ validatorCalls' = Append(validatorCalls, [by |-> pos, call |-> inflight'])
        /\ (pc = "awaitToken" /\ pc' # "awaitToken") =>
              LET result == CallTokenValidator(inflight.validator, inflight.token)
              IN  IF result.ok
                  THEN req'.user = result.value /\ responses' = responses
                  ELSE req'.user = req.user /\ Len(responses') = Len(responses) + 1
      ]_vars

\* the route was installed while the shipped validator was current; a later
\* request is validated by the caller's validator and reaches the handler
C15_Witness ==
    /\ HasRoute(router.stack)
    /\ validatorCalls # <<>>
    /\ validatorCalls[1].call = [validator |-> "caller", token |-> "tA"]
    /\ handlerCalls # <<>>
    /\ handlerCalls[1].user = UserAdmin

-----------------------------------------------------------------------------
(* Concurrent requests.  Each request has its own context (req); req.user   *)
(* is a reference to a user object, held here as the object's index in heap *)
(* (0: no user).  heap[1] is the module's EMPTY_USER object.                *)

MaxRequests == 2    \* requests in progress at the same time

EmptyUserRef == 1

\* what the installed validator hands back: the shipped one returns the
\* module's EMPTY_USER object itself, the caller's one a new object per call
\* (examples.ts: an object literal)
ReturnedRef(validator, memory) ==
    IF validator = "default" THEN EmptyUserRef ELSE Len(memory) + 1

MemoryAfter(validator, result, memory) ==
    IF validator = "default" THEN memory ELSE Append(memory, result.value)

NewContext(authorization) ==
    [ headers |-> [authorization |-> authorization], pc |-> "run", user |-> 0,
      call |-> NoCall, seen |-> Undefined, status |-> 0 ]

\* a request arrives while others are in progress
Arrive(authorization) ==
    /\ Len(contexts) < MaxRequests
    /\ contexts' = Append(contexts, NewContext(authorization))
    /\ UNCHANGED << heap, envelope, configVars, routeVars, mode, runVars >>

\* authMiddleware on request i, to its 401 or to the await of the validator
Authenticate(i) ==
    /\ contexts[i].pc = "run"
    /\ LET r == AuthenticationStart(contexts[i], apiConfig, tokenValidator)
       IN  contexts' =
             [contexts EXCEPT ![i] =
                 IF r.act = "await"
                 THEN [@ EXCEPT !.pc = "awaitToken", !.call = r.call]
                 ELSE [@ EXCEPT !.pc = "done", !.status = r.resp.status]]
    /\ UNCHANGED << heap, envelope, configVars, routeVars, mode, runVars >>

\* authMiddleware on request i, after the validator settled: req.user = user
Resume(i) ==
    /\ contexts[i].pc = "awaitToken"
    /\ LET call == contexts[i].call
           result == CallTokenValidator(call.validator, call.token)
       IN  IF result.ok
           THEN /\ contexts' = [contexts EXCEPT ![i].pc = "handler",
                                                ![i].user = ReturnedRef(call.validator, heap)]
                /\ heap' = MemoryAfter(call.validator, result, heap)
           ELSE /\ contexts' =
                     [contexts EXCEPT ![i].pc = "done",
                                      ![i].status = AuthenticationFailed(apiConfig, result.err).resp.status]
                /\ heap' = heap
    /\ UNCHANGED << envelope, configVars, routeVars, mode, runVars >>

\* what a handler may do with its own req.user
UserChanges == {"none", "grant"}

\* req.user.roles.push('admin')
Granted(user) ==
    [user EXCEPT !.own.roles = Arr(Append(user.own.roles.v, Str("admin")))]

\* the handler of request i reads its req.user and may change it
Handle(i, change) ==
    /\ contexts[i].pc = "handler"
    /\ contexts' = [contexts EXCEPT ![i].pc = "done", ![i].status = 200,
                                    ![i].seen = heap[contexts[i].user]]
    /\ heap' = IF change = "grant"
               THEN [heap EXCEPT ![contexts[i].user] = Granted(@)]
               ELSE heap
    /\ UNCHANGED << envelope, configVars, routeVars, mode, runVars >>

NextRequests ==
    \/ \E authorization \in AuthorizationHeaders : Arrive(authorization)
    \/ \E i \in DOMAIN contexts : Authenticate(i)
    \/ \E i \in DOMAIN contexts : Resume(i)
    \/ \E i \in DOMAIN contexts, change \in UserChanges : Handle(i, change)

SpecRequests == Init /\ [][NextRequests]_vars

\* C16: whatever the interleaving, the user attached to a request is the
\* result of validating that request's own token, and no two requests'
\* contexts hold the same user object: what one request changes through its
\* context is not seen from another.  For every token validator.
C16_RequestIsolation ==
    \A i \in DOMAIN contexts :
        LET c == contexts[i]
        IN  c.user # 0 =>
              /\ c.call.token = ExtractToken(c.headers.authorization)
              /\ c.seen.t # "undefined" =>
                   c.seen = CallTokenValidator(c.call.validator, c.call.token).value
              /\ \A j \in DOMAIN contexts \ {i} : contexts[j].user # c.user

\* the stage the request in progress entered last
LastStarted == pipeline[started[Len(started)]]

FailureStatuses == {400, 401, 403}

\* C17: the framework's error path (next(err), or an exception or rejection
\* leaving a stage) is reached only for errors raised by the user handler (or
\* by the caller's own middleware); an authentication, authorization or
\* validation stage that stops a request does so with one 400/401/403
\* response carrying {error, details}.
C17_FailuresAnsweredLocally ==
    /\ escaped = <<>>
    /\ \A n \in DOMAIN nextErrors :
          \/ pipeline[nextErrors[n].by].k = "custom"
          \/ /\ pipeline[nextErrors[n].by].k = "dispatch"
             /\ \E m \in DOMAIN raised :
                   raised[m] = [fn |-> "handler", err |-> nextErrors[n].err]
    /\ (pc = "done" /\ started # <<>> /\ LastStarted.k # "custom" /\ handlerCalls = <<>>) =>
          /\ Len(responses) = 1
          /\ responses[1].by = started[Len(started)]
          /\ responses[1].resp.status \in FailureStatuses
          /\ DOMAIN responses[1].resp.body = {"error", "details"}

HandlerErrors == { raised[m].err : m \in { x \in DOMAIN raised : raised[x].fn = "handler" } }

\* C18: when the handler throws or rejects, the validation-and-dispatch stage
\* hands that same error to next exactly once, emits no response of its own,
\* and nothing else becomes of the error.
C18_HandlerErrorForwarded ==
    HandlerErrors # {} =>
        /\ pipeline[pos].k = "dispatch"
        /\ \E e \in HandlerErrors :
              /\ HandlerErrors = {e}
              /\ SelectSeq(nextErrors, LAMBDA x : x.by = pos) = <<[by |-> pos, err |-> e]>>
        /\ \A n \in DOMAIN responses : responses[n].by # pos
        /\ escaped = <<>>
        /\ pc = "done"

\* the handler returned a rejected promise
C18_Witness ==
    /\ raised # <<>>
    /\ raised[Len(raised)] = [fn |-> "handler", err |-> "handler rejected"]
    /\ nextErrors = <<[by |-> pos, err |-> "handler rejected"]>>
    /\ responses = <<>>

-----------------------------------------------------------------------------
(* Several declarations and attachments: the documentation registry.        *)

MaxRoutes == 2      \* route declarations, and attachments, in one run

RegistryDefinitions ==
    { RouteDefinition(a, Undefined, Undefined, Undefined, Undefined, r) :
        a \in {Undefined, AuthPolicy(Bool(TRUE), NotSet)},
        r \in { Obj([x \in {"200"} |-> OkSchema]),
                Obj([x \in {"200", "400"} |-> IF x = "200" THEN OkSchema
                                              ELSE CustomErrorSchema]) } }

\* a variant whose registration replaces what the registry held
DeclareReplacing(d) ==
    /\ Len(registry) < MaxRoutes
    /\ pc = "idle"
    /\ declared' = d
    /\ options' = normalizeAuthOptions(InjectValidationError(d))
    /\ warnings' = IF WarnsCustom400(d) THEN warnings + 1 ELSE warnings
    /\ registry' = <<registerWithOpenAPI(normalizeAuthOptions(InjectValidationError(d)))>>
    /\ compiled' = TRUE
    /\ UNCHANGED << configVars, router, mode, concVars, runVars >>

\* defineApiRoute(options), for one definition after another
Declare(d) ==
    /\ Len(registry) < MaxRoutes
    /\ pc = "idle"
    /\ declared' = d
    /\ options' = normalizeAuthOptions(InjectValidationError(d))
    /\ warnings' = IF WarnsCustom400(d) THEN warnings + 1 ELSE warnings
    /\ registry' = Append(registry,
                      registerWithOpenAPI(normalizeAuthOptions(InjectValidationError(d))))
    /\ compiled' = TRUE
    /\ UNCHANGED << configVars, router, mode, concVars, runVars >>

RouteLayers(stack) == { i \in DOMAIN stack : stack[i].layer = "route" }

\* the attacher of the definition compiled last, applied to the router again
AttachRoute ==
    /\ compiled
    /\ pc = "idle"
    /\ Cardinality(RouteLayers(router.stack)) < MaxRoutes
    /\ router' = [ router EXCEPT !.stack =
                     Append(@, RouteLayer(options.method, options.path,
                                  Middlewares(options, router.hasAuthMiddleware))) ]
    /\ UNCHANGED << configVars, options, declared, compiled, warnings, registry,
                    mode, concVars, runVars >>

RegistryRequests ==
    { Request(h, Obj([companyId |-> Str("c1")]), GoodQuery, GoodBody) :
        h \in {NoHeader, Header(<<"Bearer", "tA">>)} }

NextRegistry ==
    \/ \E d \in RegistryDefinitions : Declare(d)
    \/ UseAuth
    \/ AttachRoute
    \/ \E r \in RegistryRequests : StartRequest(r)
    \/ RunAuthentication
    \/ ResumeAuthentication
    \/ RunDispatch
    \/ \E outcome \in HandlerOutcomes : HandlerReturns(outcome)

SpecRegistry == Init /\ [][NextRegistry]_vars

\* C20: each compile appends exactly one entry to the registry, before the
\* route is attached or a request is served; attaching and serving requests
\* append nothing; entries already in the registry are never removed or
\* changed.
C20_RegistryAppendOnly ==
    /\ [](HasRoute(router.stack) \/ pc # "idle" => registry # <<>>)
    /\ [][ /\ Len(registry') >= Len(registry)
           /\ SubSeq(registry', 1, Len(registry)) = registry
           /\ registry' # registry =>
                 /\ Len(registry') = Len(registry) + 1
                 /\ pc = "idle"
                 /\ compiled'
                 /\ registry'[Len(registry')].path = OpenApiPath(options'.path)
                 /\ UNCHANGED << router, runVars >>
           /\ << options, declared, compiled, warnings >>' # << options, declared, compiled, warnings >>
                 => Len(registry') = Len(registry) + 1
           /\ << router, runVars >>' # << router, runVars >> => registry' = registry
         ]_vars

\* two definitions compiled, routes attached, a request served: two entries
C20_Witness ==
    /\ Len(registry) = 2
    /\ registry[1] # registry[2]
    /\ Cardinality(RouteLayers(router.stack)) = 2
    /\ handlerCalls # <<>>

-----------------------------------------------------------------------------
(* Normalization of the auth policy *)

\* the policy the stated rule yields for the declared one: requiresAuthentication
\* is written only when it was not truthy and a rule is declared
RuleNormalized(auth) ==
    IF ~Truthy(Get(auth, "requiresAuthentication")) /\ DeclaresAuthorizationRule
    THEN SetProp(auth, "requiresAuthentication", Bool(TRUE))
    ELSE auth

AuthKinds == {"authentication", "role", "scope", "claim"}

\* C21: once compiled, the policy is the declared one with requiresAuthentication
\* set to true exactly when it was not already truthy and the authorization
\* holds roles, scopes or a non-empty claims list; it is the declared policy,
\* untouched, when authorization is absent, is an empty object or holds only an
\* empty claims list; and a definition without a policy keeps none and its
\* attached pipeline holds no auth stage.
C21_NormalizationRule ==
    compiled =>
        /\ declared.auth = Undefined =>
             /\ options.auth = Undefined
             /\ Attached => \A i \in DOMAIN Installed : Installed[i].k \notin AuthKinds
        /\ declared.auth # Undefined => options.auth = RuleNormalized(declared.auth)

\* C22: normalizing the compiled (already normalized) definition again changes
\* nothing, for every declared auth policy including an absent one.
C22_NormalizeIdempotent ==
    compiled => normalizeAuthOptions(options) = options

\* a definition whose policy normalization rewrote has been compiled
C22_Witness ==
    /\ compiled
    /\ declared.auth # Undefined
    /\ options.auth # declared.auth
    /\ Get(options.auth, "requiresAuthentication") = Bool(TRUE)

-----------------------------------------------------------------------------
(* Query adapters: a route whose query schema is built from queryBoolean and *)
(* queryInteger (example.ts, getFilteredItemsRoute), alone or with a params  *)
(* and a body schema, on raw query strings.                                  *)

ItemsQuery ==
    ObjectSchema(<<"active", "page">>,
                 [active |-> "queryBoolean", page |-> "queryInteger"])

\* what the query-string parser may hold for one name: nothing, a string, or
\* an array when the name is repeated
ActiveValues ==
    { Undefined, Text(<<"t", "r", "u", "e">>), Text(<<"1">>),
      Text(<<"f", "a", "l", "s", "e">>), Text(<<>>), Text(<<"y", "e", "s">>),
      Text(<<"T", "R", "U", "E">>), Text(<<"0">>),
      Arr(<<Text(<<"1">>), Text(<<"1">>)>>) }

PageValues ==
    { Undefined, Text(<<>>), Text(<<"1", "2">>), Text(<<"1", "2", "p", "x">>),
      Text(<<"a", "b", "c">>), Text(<<" ", "7">>), Text(<<"-", "3">>),
      Text(<<"+", "4">>), Text(<<"1", ".", "5">>), Text(<<"0">>), Text(<<"-">>),
      Arr(<<Text(<<"1">>), Text(<<"2">>)>>) }

RawQuery(active, page) ==
    LET P(k) == IF k = "active" THEN active ELSE IF k = "page" THEN page ELSE Str("on")
    IN  Obj([k \in { x \in {"active", "page", "debug"} : P(x).t # "undefined" } |-> P(k)])

QuerySchemaSets ==
    { [params |-> p, query |-> q, body |-> b] :
        p \in {Undefined, ParamsSchema}, q \in {Undefined, ItemsQuery},
        b \in {Undefined, BodySchema} }

QueryCases ==
    { [ pipeline |-> <<DispatchStage(sch)>>,
        request |-> Request(NoHeader, Obj([companyId |-> Str("c1"), extra |-> Str("x")]),
                            RawQuery(a, p), GoodBody) ] :
        sch \in QuerySchemaSets, a \in ActiveValues, p \in PageValues }

NextQuery ==
    \/ \E c \in QueryCases : StartPipeline(c)
    \/ RunDispatch
    \/ \E outcome \in HandlerOutcomes : HandlerReturns(outcome)

SpecQuery == Init /\ [][NextQuery]_vars

\* the dispatch stage under test declares the adapters' query schema
AdaptedQuery == Tested("dispatch") /\ pipeline[1].query = ItemsQuery

RawActive == RawField(received.query, "active")
RawPage   == RawField(received.query, "page")

\* C23: the handler of a route whose query schema uses the boolean adapter sees
\* true for the raw values 'true' and '1', false for 'false', for the empty
\* string and for every other string, and undefined (no value) when the
\* parameter is absent.
C23_BooleanAdapter ==
    (AdaptedQuery /\ handlerCalls # <<>>) =>
        LET out == RawField(handlerCalls[1].query, "active")
        IN  /\ RawActive \in {Text(<<"t", "r", "u", "e">>), Text(<<"1">>)} => out = Bool(TRUE)
            /\ (RawActive.t = "string"
                  /\ RawActive \notin {Text(<<"t", "r", "u", "e">>), Text(<<"1">>)})
                 => out = Bool(FALSE)
            /\ RawActive.t = "undefined" => out = Undefined

\* the integer each raw page value of the model starts with
LeadingInteger ==
    { <<Text(<<"1", "2">>), 12>>, <<Text(<<"1", "2", "p", "x">>), 12>>,
      <<Text(<<" ", "7">>), 7>>, <<Text(<<"-", "3">>), 0 - 3>>,
      <<Text(<<"+", "4">>), 4>>, <<Text(<<"1", ".", "5">>), 1>>, <<Text(<<"0">>), 0>> }

StartsWithNumber(val) == \E e \in LeadingInteger : e[1] = val

\* C24: on a route whose query schema uses the integer adapter, an absent
\* value reaches the handler as undefined, a value starting with a base-10
\* number reaches it as that number, and a non-empty value that does not
\* start with a number is answered 400 without invoking the handler.
C24_IntegerAdapter ==
    (AdaptedQuery /\ ~Fails("params") /\ RawActive.t \in {"string", "undefined"}) =>
        /\ (RawPage.t = "undefined" /\ handlerCalls # <<>>) =>
             RawField(handlerCalls[1].query, "page") = Undefined
        /\ \A e \in LeadingInteger :
             (RawPage = e[1] /\ handlerCalls # <<>>) =>
                RawField(handlerCalls[1].query, "page") = Num(e[2])
        /\ (HasText(RawPage) /\ ~StartsWithNumber(RawPage)) =>
             /\ handlerCalls = <<>>
             /\ \A n \in DOMAIN responses : responses[n].resp.status = 400
             /\ pc = "done" => Len(responses) = 1

-----------------------------------------------------------------------------
(* Response envelopes: a handler answers through one of the ApiResponse      *)
(* builders (README: ApiResponse.notFound(res, 'User not found'), ...).       *)

BuilderCall(fn, data, status, message, details) ==
    [fn |-> fn, data |-> data, status |-> status, message |-> message,
     details |-> details]

EnvelopeData    == Obj([id |-> Str("u1")])
EnvelopeMessage == Str("Email already registered")
EnvelopeDetails ==
    { Undefined, Obj([field |-> "email"]), Obj([message |-> "from details"]) }

BuilderCalls ==
    { BuilderCall("success", EnvelopeData, st, Undefined, Undefined) :
        st \in {Undefined, Num(200), Num(201), Num(204)} }
    \cup { BuilderCall("created", EnvelopeData, Undefined, Undefined, Undefined) }
    \cup { BuilderCall("conflict", Undefined, Undefined, EnvelopeMessage, d) :
             d \in EnvelopeDetails }
    \cup { BuilderCall("error", Undefined, st, EnvelopeMessage, d) :
             st \in {Undefined, Num(422)}, d \in EnvelopeDetails }
    \cup { BuilderCall(fn, Undefined, Undefined, m, d) :
             fn \in {"badRequest", "unauthorized", "forbidden", "notFound", "serverError"},
             m \in {Undefined, EnvelopeMessage}, d \in EnvelopeDetails }

\* the handler answers through a builder
HandlerResponds(call) ==
    /\ pc = "awaitHandler"
    /\ Responds(pos, ApiResponseCall(call, apiConfig))
    /\ envelope' = call
    /\ UNCHANGED << configVars, routeVars, mode, contexts, heap, pipeline, received,
                    req, inflight, started, handlerCalls, validatorCalls, raised >>

RespondCases ==
    { [ pipeline |-> <<DispatchStage(NoSchemas)>>,
        request |-> Request(NoHeader, p, GoodQuery, GoodBody) ] : p \in RawParams }

NextRespond ==
    \/ \E c \in RespondCases : StartPipeline(c)
    \/ RunDispatch
    \/ \E call \in BuilderCalls : HandlerResponds(call)

SpecRespond == Init /\ [][NextRespond]_vars

\* the handler of the request in progress answered through a builder
Enveloped == pc = "done" /\ responses # <<>> /\ envelope.fn # "none"

\* the builders' statuses, with the given one for conflict, and conflict's body
EnvelopeStatuses(conflictStatus) ==
    Enveloped =>
        LET resp == responses[1].resp
            fn   == envelope.fn
        IN  /\ Len(responses) = 1
            /\ fn = "success" =>
                 /\ resp.status = (IF envelope.status.t = "undefined" THEN 200
                                   ELSE envelope.status.v)
                 /\ resp.body = envelope.data
            /\ fn = "created" => resp.status = 201 /\ resp.body = envelope.data
            /\ fn = "badRequest" => resp.status = 400
            /\ fn = "unauthorized" => resp.status = 401
            /\ fn = "forbidden" => resp.status = 403
            /\ fn = "notFound" => resp.status = 404
            /\ fn = "serverError" => resp.status = 500
            /\ fn = "conflict" =>
                 /\ resp.status = conflictStatus
                 /\ resp.body.error = "Conflict"
                 /\ "message" \in DOMAIN resp.body.details
                 /\ envelope.details.t = "object" =>
                      \A k \in DOMAIN envelope.details.own :
                         resp.body.details[k] = envelope.details.own[k]
                 /\ ~HasProperty("message", BareObj(OrEmpty(envelope.details))) =>
                      resp.body.details.message = envelope.message.v

\* C25 (as amended): success answers 200 unless another status is passed,
\* created 201, badRequest 400, conflict 409, unauthorized 401, forbidden 403,
\* notFound 404, serverError 500; conflict's body is {error: 'Conflict',
\* details: {message, ...details}} with the caller's message as details.message
\* unless the details passed hold a message of their own.
C25_EnvelopeStatuses == EnvelopeStatuses(409)

\* C25 as stated: the same with conflict answering 400.
C25_ConflictIsBadRequest == EnvelopeStatuses(400)

\* a handler answered through conflict with details of its own
C25_Witness ==
    /\ Enveloped
    /\ envelope.fn = "conflict"
    /\ envelope.details = Obj([field |-> "email"])
    /\ responses[1].resp.body.details =
         [message |-> "Email already registered", field |-> "email"]

-----------------------------------------------------------------------------
(* What a 401 discloses *)

\* the message texts that are fixed in the code or held by the configuration
FixedTexts ==
    { "Missing or invalid authorization token", "Token validation failed",
      apiConfig.unauthorized, apiConfig.invalidToken }

\* the tokens of the model on which the caller's validator raises
FailingTokens == { t \in {"", "tA", "tB", "expired"} : ~CallerTokenValidator(t).ok }

\* C26: every 401 body holds only fixed or configured texts, and the 401 sent
\* after the token validator raised is the one any other refused token, with
\* any other error raised, would have received.
C26_UnauthorizedDisclosesNothing ==
    /\ \A n \in DOMAIN responses :
         responses[n].resp.status = 401 =>
            /\ responses[n].resp.body.error = "Unauthorized"
            /\ \A k \in DOMAIN responses[n].resp.body.details :
                 responses[n].resp.body.details[k] \in FixedTexts
    /\ (TokenCallSettled /\ ~TokenCallResult.ok) =>
         \A t \in FailingTokens :
            responses[1].resp = AuthenticationFailed(apiConfig, CallerTokenValidator(t).err).resp

-----------------------------------------------------------------------------
(* The claim stage before its policy: user, route parameter, path walk *)

ClaimUnauthorized401 ==
    Unauthorized401([message |-> "Authentication required for claim validation"])

ClaimParameter400 ==
    [ status |-> 400,
      body |-> [ error |-> "Bad Request",
                 details |-> [message |->
                     "Parameter 'companyId' is required for claim validation"] ] ]

\* the stage under test answered with resp and did nothing else
ClaimStageAnswered(resp) ==
    /\ responses = <<[by |-> 1, resp |-> resp]>>
    /\ validatorCalls = <<>>
    /\ continued = <<>>
    /\ handlerCalls = <<>>
    /\ pc = "done"

\* C27: a claim stage run without an attached user answers 401, whether or
\* not the named route parameter is present; run with a user but without the
\* parameter it answers 400 (not 401 or 403); in both cases no validator is
\* called, the stage does not continue and the handler is not invoked.
C27_ClaimStagePreconditions ==
    Tested("claim") =>
        /\ received.user.t = "undefined" => ClaimStageAnswered(ClaimUnauthorized401)
        /\ (received.user.t = "object" /\ "companyId" \notin DOMAIN received.params.own)
             => ClaimStageAnswered(ClaimParameter400)

\* a rule with a custom validator, a user, and no companyId on the request
C27_Witness ==
    /\ Tested("claim")
    /\ pipeline[1].rule.validator = Fn("isOwner")
    /\ received.user.t = "object"
    /\ "companyId" \notin DOMAIN received.params.own
    /\ responses = <<[by |-> 1, resp |-> ClaimParameter400]>>

\* the value at a path as stated: undefined as soon as a segment before the
\* last is missing or null
RECURSIVE PathValue(_, _)
PathValue(value, path) ==
    IF path = <<>> THEN value
    ELSE IF value.t \in {"undefined", "null"} THEN Undefined
    ELSE PathValue(Get(value, Head(path)), Tail(path))

\* the walk of the stage under test met a missing or null segment
RECURSIVE StopsEarly(_, _)
StopsEarly(value, path) ==
    /\ path # <<>>
    /\ \/ value.t \in {"undefined", "null"}
       \/ StopsEarly(Get(value, Head(path)), Tail(path))

\* a claim stage that got past its user and parameter checks
ClaimResolved ==
    /\ Tested("claim")
    /\ received.user.t = "object"
    /\ Truthy(Get(received.params, "companyId"))

\* C28: the claim value is the value stored at userClaimPath from the user
\* object, and undefined when a segment on the way is missing or null: that
\* value is what a custom validator is called with, and under the default
\* policy an early stop is answered 403 for every present route parameter.
C28_ClaimPathResolution ==
    ClaimResolved =>
        LET rule == pipeline[1].rule
        IN  /\ Truthy(rule.validator) =>
                 /\ Len(validatorCalls) = 1
                 /\ validatorCalls[1].call.claimValue =
                      PathValue(received.user, rule.userClaimPath)
                 /\ validatorCalls[1].call.paramValue = Get(received.params, "companyId")
            /\ (~Truthy(rule.validator) /\ StopsEarly(received.user, rule.userClaimPath))
                 => ClaimStageDenied

-----------------------------------------------------------------------------
(* The shipped token validator *)

RoleRequirements  == { Str("admin"), Arr(<<Str("admin"), Str("editor")>>), Arr(<<>>) }
ScopeRequirements == { Str("read"), Arr(<<Str("read"), Str("write")>>) }

\* the user a request in progress carries
UserOf(c) == heap[c.user]

\* C29: a validator is installed at every point; while it is the shipped one,
\* a request with a Bearer token is never refused by the authentication stage,
\* and the user it carries to the handler of an authentication-only route is
\* the anonymous one (empty id, no roles, no scopes), whom every role stage and
\* every scope stage requiring at least one scope answers 403.
C29_DefaultValidatorAnonymous ==
    /\ tokenValidator \in TokenValidators
    /\ tokenValidator = "default" =>
         \A i \in DOMAIN contexts :
            LET c == contexts[i]
            IN  /\ (HasBearerForm(c.headers.authorization) /\ c.pc = "done")
                     => c.status = 200
                /\ c.pc = "handler" =>
                     /\ Get(UserOf(c), "id") = Str("")
                     /\ Get(UserOf(c), "roles") = Arr(<<>>)
                     /\ Get(UserOf(c), "scopes") = Arr(<<>>)
                     /\ \A r \in RoleRequirements :
                          RoleMiddleware(r, [user |-> UserOf(c)], apiConfig)
                            = Respond(ApiForbidden(apiConfig.insufficientRoles, NoProps))
                     /\ \A sc \in ScopeRequirements :
                          ScopeMiddleware(sc, [user |-> UserOf(c)], apiConfig)
                            = Respond(ApiForbidden(apiConfig.insufficientScopes, NoProps))

-----------------------------------------------------------------------------
(* What the handler observes *)

\* the actions of the stage under test have run up to the handler's call
Dispatched == Tested("dispatch") /\ pc # "run"

Seen(part) == handlerCalls[1][part]

\* the output of the adapters' query schema on the raw query, field by field
CoercedActive == Bool(RawActive \in {Text(<<"t", "r", "u", "e">>), Text(<<"1">>)})
CoercedPage ==
    IF ~HasText(RawPage) THEN Undefined
    ELSE IF \E e \in LeadingInteger : e[1] = RawPage
    THEN Num((CHOOSE e \in LeadingInteger : e[1] = RawPage)[2])
    ELSE NaN

\* C30: when every declared schema passes, the handler is invoked exactly once
\* with params, query and body replaced by their schema's output (declared
\* fields only, the query adapters' values transformed), and a part without a
\* schema is handed over as it was received.
C30_HandlerSeesCoerced ==
    (Dispatched /\ FirstFailing = "none") =>
        /\ Len(handlerCalls) = 1
        /\ Seen("params") =
             IF DeclaredSchema("params")
             THEN Obj([companyId |-> received.params.own.companyId])
             ELSE received.params
        /\ Seen("body") =
             IF DeclaredSchema("body")
             THEN Obj([email |-> received.body.own.email, name |-> received.body.own.name])
             ELSE received.body
        /\ IF DeclaredSchema("query")
           THEN /\ DOMAIN Seen("query").own \subseteq {"active", "page"}
                /\ RawField(Seen("query"), "active") = CoercedActive
                /\ RawField(Seen("query"), "page") = CoercedPage
           ELSE Seen("query") = received.query
        /\ req = handlerCalls[1]

\* ?active=1&page=12px&debug=on with all three schemas declared
C30_Witness ==
    /\ Dispatched
    /\ DeclaredSchema("params") /\ DeclaredSchema("query") /\ DeclaredSchema("body")
    /\ RawActive = Text(<<"1">>) /\ RawPage = Text(<<"1", "2", "p", "x">>)
    /\ Len(handlerCalls) = 1
    /\ Seen("query") = Obj([active |-> Bool(TRUE), page |-> Num(12)])
    /\ Seen("params") = Obj([companyId |-> Str("c1")])

-----------------------------------------------------------------------------
(* A token validator that may hand back no user *)

InitLookup ==
    /\ apiConfig = defaultApiConfig
    /\ tokenValidator = "lookup"
    /\ options = NoOptions
    /\ declared = NoOptions
    /\ compiled = FALSE
    /\ warnings = 0
    /\ registry = <<>>
    /\ router = [hasAuthMiddleware |-> FALSE, stack |-> <<>>]
    /\ mode = "express"
    /\ pipeline = <<>>
    /\ received = NoRequest
    /\ req = NoRequest
    /\ pos = 0
    /\ pc = "idle"
    /\ inflight = NoCall
    /\ started = <<>> /\ continued = <<>> /\ responses = <<>>
    /\ nextErrors = <<>> /\ escaped = <<>> /\ handlerCalls = <<>>
    /\ validatorCalls = <<>> /\ raised = <<>>
    /\ contexts = <<>> /\ heap = <<EMPTY_USER>>
    /\ envelope = NoEnvelope
    /\ callerObjects = NoCallerObjects
    /\ settings = NoSettings

SpecLookup == InitLookup /\ [][Next]_vars

AuthorizationKinds == {"role", "scope", "claim"}

\* C31: in a compiled pipeline on a router that useAuth did not mark, every
\* role, scope and claim stage entered finds a user on the request, whatever
\* the token validator returned, and none of them answers 401.
C31_AuthorizationStagesSeeUser ==
    (Attached /\ ~router.hasAuthMiddleware) =>
        \A n \in DOMAIN started :
            pipeline[started[n]].k \in AuthorizationKinds =>
                /\ Truthy(req.user)
                /\ \A m \in DOMAIN responses :
                     responses[m].by = started[n] => responses[m].resp.status # 401

-----------------------------------------------------------------------------
(* Concurrent requests on a route guarded by authentication and a claim rule *)
(* with a custom validator: a suspended call is resumed by its own           *)
(* completion only, and nothing bounds the wait.                             *)

GuardedRule == ProjectRule

\* the request as the claim stage of context c reads it
ClaimRequest(c) ==
    [ user |-> heap[c.user], params |-> Obj([projectId |-> Str("p1")]) ]

\* authMiddleware on request i, after the validator settled; next() enters
\* the claim stage
ResumeGuarded(i) ==
    /\ contexts[i].pc = "awaitToken"
    /\ LET call == contexts[i].call
           result == CallTokenValidator(call.validator, call.token)
       IN  IF result.ok
           THEN /\ contexts' = [contexts EXCEPT ![i].pc = "claim",
                                                ![i].user = ReturnedRef(call.validator, heap)]
                /\ heap' = MemoryAfter(call.validator, result, heap)
           ELSE /\ contexts' =
                     [contexts EXCEPT ![i].pc = "done",
                                      ![i].status = AuthenticationFailed(apiConfig, result.err).resp.status]
                /\ heap' = heap
    /\ UNCHANGED << envelope, configVars, routeVars, mode, runVars >>

\* claimValidationMiddleware on request i, up to the await of the validator
ClaimStart(i) ==
    /\ contexts[i].pc = "claim"
    /\ LET r == ClaimValidationStart(GuardedRule, ClaimRequest(contexts[i]), apiConfig)
       IN  contexts' =
             [contexts EXCEPT ![i] =
                 IF r.act = "await"
                 THEN [@ EXCEPT !.pc = "awaitClaim", !.call = r.call]
                 ELSE IF r.act = "respond"
                 THEN [@ EXCEPT !.pc = "done", !.status = r.resp.status]
                 ELSE [@ EXCEPT !.pc = "handler"]]
    /\ UNCHANGED << heap, envelope, configVars, routeVars, mode, runVars >>

\* claimValidationMiddleware on request i, after its validator settled; a
\* validator that raised leaves the request without a response
ClaimSettles(i, result) ==
    /\ contexts[i].pc = "awaitClaim"
    /\ contexts' =
         [contexts EXCEPT ![i] =
             IF ~result.ok THEN [@ EXCEPT !.pc = "done"]
             ELSE IF Truthy(result.value) THEN [@ EXCEPT !.pc = "handler"]
             ELSE [@ EXCEPT !.pc = "done",
                            !.status = ClaimVerdict(GuardedRule, FALSE, apiConfig).resp.status]]
    /\ UNCHANGED << heap, envelope, configVars, routeVars, mode, runVars >>

NextStall ==
    \/ \E authorization \in AuthorizationHeaders : Arrive(authorization)
    \/ \E i \in DOMAIN contexts : Authenticate(i)
    \/ \E i \in DOMAIN contexts : ResumeGuarded(i)
    \/ \E i \in DOMAIN contexts : ClaimStart(i)
    \/ \E i \in DOMAIN contexts, result \in ValidatorOutcomes : ClaimSettles(i, result)
    \/ \E i \in DOMAIN contexts, change \in UserChanges : Handle(i, change)

SpecStall == Init /\ [][NextStall]_vars

Suspended(c) == c.pc \in {"awaitToken", "awaitClaim"}

\* a suspended request has no response and its handler has not run
SuspendedUnanswered ==
    \A i \in DOMAIN contexts :
        Suspended(contexts[i]) =>
            contexts[i].status = 0 /\ contexts[i].seen = Undefined

\* a step leaves a suspended request suspended and as it was, its user
\* included, unless the step is the completion of its own call
SuspendedUntouched ==
    \A i \in DOMAIN contexts :
        Suspended(contexts[i]) =>
            \/ contexts'[i].pc # contexts[i].pc
            \/ /\ contexts'[i] = contexts[i]
               /\ contexts[i].user # 0 => heap'[contexts[i].user] = heap[contexts[i].user]

\* C32: while its token validator or claim validator call has not completed a
\* request has no response and has not reached its handler, however long that
\* lasts, and no step of another request changes its context.
C32_StalledRequestUntouched ==
    []SuspendedUnanswered /\ [][SuspendedUntouched]_vars

-----------------------------------------------------------------------------
(* Every request comes to an outcome *)

\* the stages of a request in progress are run to their end: the event loop
\* resumes every stage whose awaited call completed
SpecLive == Init /\ [][Next]_vars /\ WF_vars(RunRequest)

\* final outcomes of the request in progress: the invocation of the handler,
\* or, before it, a response or an error handed to the framework
OutcomeCount ==
    IF handlerCalls # <<>> THEN Len(handlerCalls)
    ELSE Len(responses) + Len(nextErrors)

\* C33: a request that entered a compiled pipeline comes to exactly one final
\* outcome (a terminal response, the handler's invocation, or the framework's
\* error path) once the validators and custom middleware it meets complete,
\* and never has more than one.
C33_ExactlyOneOutcome ==
    /\ [](OutcomeCount <= 1)
    /\ (pc = "run") ~> (OutcomeCount = 1)

-----------------------------------------------------------------------------
(* Several routes built from the caller's one responses map and one auth     *)
(* object: the helpers and defineApiRoute hold them by reference, so what a  *)
(* compile writes into options.response and options.auth is written into    *)
(* the caller's objects.                                                     *)

SharedResponses ==
    { Obj([x \in {"200"} |-> OkSchema]),
      Obj([x \in {"200", "400"} |-> IF x = "200" THEN OkSchema ELSE CustomErrorSchema]) }

SharedPolicies ==
    { Undefined, AuthPolicy(Bool(TRUE), NotSet),
      AuthPolicy(NotSet, Authorization(Str("admin"), NotSet, NotSet)) }

SharedPaths == { CompanyPath, <<Lit("items")>> }

\* the definition a helper builds for path from the given objects
SharedDefinition(path, objects) ==
    [ RouteDefinition(objects.auth, Undefined, Undefined, Undefined, Undefined,
                      objects.response) EXCEPT !.path = path ]

InitShare ==
    /\ apiConfig = defaultApiConfig
    /\ tokenValidator \in TokenValidators
    /\ options = NoOptions
    /\ declared = NoOptions
    /\ compiled = FALSE
    /\ warnings = 0
    /\ registry = <<>>
    /\ router = [hasAuthMiddleware |-> FALSE, stack |-> <<>>]
    /\ mode = "express"
    /\ pipeline = <<>>
    /\ received = NoRequest
    /\ req = NoRequest
    /\ pos = 0
    /\ pc = "idle"
    /\ inflight = NoCall
    /\ started = <<>> /\ continued = <<>> /\ responses = <<>>
    /\ nextErrors = <<>> /\ escaped = <<>> /\ handlerCalls = <<>>
    /\ validatorCalls = <<>> /\ raised = <<>>
    /\ contexts = <<>> /\ heap = <<EMPTY_USER>>
    /\ envelope = NoEnvelope
    /\ \E r \in SharedResponses, a \in SharedPolicies :
         callerObjects = [ response |-> r, auth |-> a,
                           written |-> [response |-> r, auth |-> a] ]
    /\ settings = NoSettings

\* defineApiRoute on a definition built from the caller's objects: the 400
\* injection and the normalization write into those objects
DeclareShared(path) ==
    /\ Len(registry) < MaxRoutes
    /\ pc = "idle"
    /\ \A n \in DOMAIN registry : registry[n].path # OpenApiPath(path)
    /\ LET d == SharedDefinition(path, callerObjects)
           c == normalizeAuthOptions(InjectValidationError(d))
       IN  /\ declared' = d
           /\ options' = c
           /\ warnings' = IF WarnsCustom400(d) THEN warnings + 1 ELSE warnings
           /\ registry' = Append(registry, registerWithOpenAPI(c))
           /\ callerObjects' = [callerObjects EXCEPT !.response = c.response,
                                                     !.auth = c.auth]
    /\ compiled' = TRUE
    /\ UNCHANGED << apiConfig, tokenValidator, settings, router, mode, concVars, runVars >>

NextShare ==
    \/ \E path \in SharedPaths : DeclareShared(path)
    \/ UseAuth
    \/ AttachRoute
    \/ \E r \in RegistryRequests : StartRequest(r)
    \/ RunAuthentication
    \/ ResumeAuthentication
    \/ RunRole
    \/ RunDispatch
    \/ \E outcome \in HandlerOutcomes : HandlerReturns(outcome)

SpecShare == InitShare /\ [][NextShare]_vars

\* what compiling the route for path alone, from the objects as the caller
\* wrote them, gives
AloneDefinition(path) == SharedDefinition(path, callerObjects.written)
AloneCompiled(path) == normalizeAuthOptions(InjectValidationError(AloneDefinition(path)))
AloneWarnings(path) == IF WarnsCustom400(AloneDefinition(path)) THEN 1 ELSE 0

\* the paths compiled so far, in order
CompiledPath(n) ==
    CHOOSE path \in SharedPaths : OpenApiPath(path) = registry[n].path

SameAsAlone ==
    /\ \A n \in DOMAIN registry :
         registry[n] = registerWithOpenAPI(AloneCompiled(CompiledPath(n)))
    /\ compiled =>
         /\ options.auth = AloneCompiled(options.path).auth
         /\ Middlewares(options, FALSE) = Middlewares(AloneCompiled(options.path), FALSE)
    /\ \A path \in SharedPaths : warnings = Len(registry) * AloneWarnings(path)

CallerObjectsKept ==
    /\ callerObjects.response = callerObjects.written.response
    /\ callerObjects.auth = callerObjects.written.auth

\* C34: each route compiled from the caller's shared responses map and auth
\* object gets the warning, normalized policy, pipeline and documentation
\* entry it gets when compiled alone, and the caller's objects stay as the
\* caller wrote them.
C34_CompileLeavesOthersAlone == SameAsAlone /\ CallerObjectsKept

-----------------------------------------------------------------------------
(* What the validation-and-dispatch stage leaves in the request.            *)

Emitted400 ==
    /\ Tested("dispatch")
    /\ responses # <<>>
    /\ responses[1].resp.status = 400

\* the parts of the request are the ones the stage received
PartsAsReceived ==
    /\ req.params = received.params
    /\ req.query = received.query
    /\ req.body = received.body

\* C35: when the validation-and-dispatch stage emits a 400 the request's
\* params, query and body are what they were when the stage started; they
\* are replaced by coerced output only when every declared schema passes.
C35_RejectedRequestUnchanged ==
    /\ Emitted400 => PartsAsReceived
    /\ (Tested("dispatch") /\ ~PartsAsReceived) => FirstFailing = "none"

-----------------------------------------------------------------------------
(* Documented security against the stages a request to the route passes.    *)

\* a request to the attached route passes an authentication stage before
\* the stage that invokes the handler
AuthenticatedRoute ==
    LET p == Flatten(router.stack)
    IN  \E i, j \in DOMAIN p :
          i < j /\ p[i].k = "authentication" /\ p[j].k = "dispatch"

DocumentedSecured == registry[Len(registry)].security = <<"bearerAuth">>

\* C36: the documentation entry of an attached route carries the bearerAuth
\* security requirement exactly when requests to the route pass an
\* authentication stage before the handler, also for a route without an auth
\* policy on a router on which useAuth installed authentication.
C36_SecurityMatchesPipeline ==
    Attached => (DocumentedSecured <=> AuthenticatedRoute)

-----------------------------------------------------------------------------
(* createAuthMiddleware(options) against the stages it chains, run one      *)
(* after the other as a router runs them.                                   *)

LegacyCases ==
    { [pipeline |-> createAuthMiddleware(o), request |-> r] :
        o \in LegacyAuthOptions, r \in Requests }

InitLegacy ==
    /\ apiConfig = defaultApiConfig
    /\ tokenValidator \in TokenValidators \cup {"verify"}
    /\ options = NoOptions
    /\ declared = NoOptions
    /\ compiled = FALSE
    /\ warnings = 0
    /\ registry = <<>>
    /\ router = [hasAuthMiddleware |-> FALSE, stack |-> <<>>]
    /\ mode = "composed"
    /\ pipeline = <<>>
    /\ received = NoRequest
    /\ req = NoRequest
    /\ pos = 0
    /\ pc = "idle"
    /\ inflight = NoCall
    /\ started = <<>> /\ continued = <<>> /\ responses = <<>>
    /\ nextErrors = <<>> /\ escaped = <<>> /\ handlerCalls = <<>>
    /\ validatorCalls = <<>> /\ raised = <<>>
    /\ contexts = <<>> /\ heap = <<EMPTY_USER>>
    /\ envelope = NoEnvelope
    /\ callerObjects = NoCallerObjects
    /\ settings = NoSettings

NextLegacy ==
    \/ \E c \in LegacyCases : StartPipeline(c)
    \/ RunAuthentication
    \/ ResumeAuthentication
    \/ RunRole
    \/ RunScope

SpecLegacy == InitLegacy /\ [][NextLegacy]_vars

Answered(resp)  == [kind |-> "respond", resp |-> resp]
Failed(err)     == [kind |-> "error", err |-> err]
Proceeded(user) == [kind |-> "continue", user |-> user, nextCalls |-> 1]

\* how one stage's result ends the sequence, or hands over to the rest
StageEnds(r, rest) ==
    CASE r.act = "respond" -> Answered(r.resp)
      [] r.act = "throw"   -> Failed(r.err)
      [] OTHER             -> rest

\* the authentication stage, then the role stage if roles are given, then
\* the scope stage if scopes are given, each run as a stage of its own
StagedOutcome(opts, request, cfg, validator) ==
    LET a      == AuthenticationStart(request, cfg, validator)
        result == CallTokenValidator(validator, a.call.token)
        authed == [request EXCEPT !.user = result.value]
        scoped == IF Truthy(opts.scopes)
                  THEN StageEnds(ScopeMiddleware(opts.scopes, authed, cfg),
                                 Proceeded(authed.user))
                  ELSE Proceeded(authed.user)
    IN  IF a.act = "respond" THEN Answered(a.resp)
        ELSE IF ~result.ok THEN Answered(AuthenticationFailed(cfg, result.err).resp)
        ELSE IF Truthy(opts.roles)
        THEN StageEnds(RoleMiddleware(opts.roles, authed, cfg), scoped)
        ELSE scoped

\* what the middleware returned by createAuthMiddleware did with the request
LegacyOutcome ==
    IF responses # <<>> THEN Answered(responses[1].resp)
    ELSE IF nextErrors # <<>> THEN Failed(nextErrors[1].err)
    ELSE Proceeded(req.user) @@ [nextCalls |-> ContinuedTimes(Len(pipeline))]

LegacyDone == mode = "composed" /\ pc = "done" /\ pipeline # <<>>

\* C37: for every request and every options value, createAuthMiddleware
\* ends as the authentication stage followed by the role stage (if roles are
\* given) and the scope stage (if scopes are given) end: the same terminal
\* response, or the same attached user with the outer next called once.
C37_LegacyEqualsStages ==
    LegacyDone =>
        \A o \in LegacyAuthOptions :
            pipeline = createAuthMiddleware(o) =>
                /\ Len(responses) + Len(nextErrors) + Len(escaped) <= 1
                /\ LegacyOutcome = StagedOutcome(o, received, apiConfig, tokenValidator)

-----------------------------------------------------------------------------
(* composeMiddleware(list): executeMiddleware(index) calls the outer next   *)
(* when index reaches the length of the list, and hands each middleware a   *)
(* next that either passes the error out or executes the following index.   *)

ChainCases ==
    { [pipeline |-> composeMiddleware(l), request |-> r] :
        l \in UNION { [1..n -> ComposableStages] : n \in 1..MaxComposed },
        r \in Requests }

\* composeMiddleware([]) called with a request: executeMiddleware(0) finds
\* index === middlewares.length and calls the outer next at once
ComposeEmpty(r) ==
    /\ pc = "idle"
    /\ pipeline' = composeMiddleware(<<>>)
    /\ received' = r
    /\ req' = r
    /\ pos' = 1
    /\ pc' = "done"
    /\ inflight' = NoCall
    /\ started' = <<>> /\ continued' = <<0>> /\ responses' = <<>>
    /\ nextErrors' = <<>> /\ escaped' = <<>> /\ handlerCalls' = <<>>
    /\ validatorCalls' = <<>> /\ raised' = <<>>
    /\ UNCHANGED << configVars, routeVars, mode, concVars >>

NextChain ==
    \/ \E c \in ChainCases : StartPipeline(c)
    \/ \E r \in Requests : ComposeEmpty(r)
    \/ RunAuthentication
    \/ ResumeAuthentication
    \/ RunRole
    \/ RunScope
    \/ RunClaim
    \/ \E result \in ValidatorOutcomes : ResumeClaim(result)
    \/ \E outcome \in CustomOutcomes : RunCustom(outcome)

SpecChain == InitCompose /\ [][NextChain]_vars

\* calls of the outer next made by executeMiddleware: without an argument
\* (index reached the length), and with the error a middleware passed
OuterNextPlain == ContinuedTimes(Len(pipeline))
PassedErrors == { m \in DOMAIN nextErrors : nextErrors[m].err = "middleware error" }
OuterNextError == Cardinality(PassedErrors)

AllContinued == \A i \in 1..Len(pipeline) : ContinuedTimes(i) = 1

ChainOrder ==
    /\ \A m \in DOMAIN started : started[m] = m
    /\ \A m \in DOMAIN started : m > 1 => ContinuedTimes(m - 1) = 1
    /\ OuterNextPlain + OuterNextError <= 1
    /\ \A m \in PassedErrors :
         /\ nextErrors[m].by = started[Len(started)]
         /\ pc = "done"
    /\ OuterNextPlain = 1 <=> (AllContinued /\ pc = "done")
    /\ (pc = "done" /\ ~AllContinued) => OuterNextPlain = 0

\* a middleware starts only when every earlier one has called next() and
\* none has passed an error
ChainStep ==
    started' # started /\ started' # <<>> =>
        /\ started' = Append(started, Len(started) + 1)
        /\ nextErrors = <<>> /\ responses = <<>> /\ escaped = <<>>
        /\ \A i \in 1..Len(started) : ContinuedTimes(i) = 1

\* C38: composeMiddleware(list) runs the middlewares in list order, each
\* only after the one before called next without an error; the outer next is
\* called exactly once, with the error as soon as a middleware passes one
\* (no later middleware runs) or without argument after the last middleware
\* continued (at once for the empty list), and not at all when some
\* middleware does not continue.
C38_ComposedChain == []ChainOrder /\ [][ChainStep]_vars

\* the second of three middlewares passed an error: the third never started
\* and the outer next was called once, with the error
C38_Witness ==
    /\ mode = "composed" /\ pc = "done"
    /\ Len(pipeline) = 3
    /\ started = <<1, 2>>
    /\ continued = <<1>>
    /\ OuterNextError = 1 /\ OuterNextPlain = 0
    /\ nextErrors[1].by = 2

-----------------------------------------------------------------------------
(* configureApi between and during requests.                                *)

MaxConfigure == 2   \* configureApi calls in one run

ConfigArguments ==
    { ConfigArgument(NoMessages),
      ConfigArgument([k \in {"insufficientRoles"} |-> "role needed"]),
      ConfigArgument([k \in {"invalidToken", "insufficientScopes"} |->
                        IF k = "invalidToken" THEN "bad token" ELSE "scope needed"]),
      ConfigArgument([k \in {"insufficientRoles", "invalidToken"} |->
                        IF k = "invalidToken" THEN "token refused" ELSE "admins only"]) }

ConfigureApi(config) ==
    /\ settings.calls < MaxConfigure
    /\ pc # "done"
    /\ LET r == configureApi(settings.defaults, apiConfig, config)
       IN  /\ apiConfig' = r.active
           /\ settings' = [ defaults |-> r.defaults, latest |-> config,
                            calls |-> settings.calls + 1 ]
    /\ UNCHANGED << tokenValidator, callerObjects, routeVars, mode, concVars, runVars >>

ConfiguredCases ==
    { [ pipeline |-> <<AuthenticationStage, st>>, request |-> r ] :
        st \in { RoleStage(Str("admin")), ScopeStage(Str("write")) },
        r \in Requests }

NextConfigure ==
    \/ \E config \in ConfigArguments : ConfigureApi(config)
    \/ \E c \in ConfiguredCases : StartPipeline(c)
    \/ RunAuthentication
    \/ ResumeAuthentication
    \/ RunRole
    \/ RunScope

SpecConfigure == Init /\ [][NextConfigure]_vars

\* the configuration the latest call asked for
Configured ==
    IF settings.latest.given THEN Overlay(defaultApiConfig, settings.latest)
    ELSE defaultApiConfig

ConfigurationInForce ==
    /\ settings.defaults = defaultApiConfig
    /\ apiConfig = Configured

\* the message a response of the stage kinds named must carry
ConfiguredMessage(r) ==
    CASE r.resp.status = 403 /\ pipeline[r.by].k = "role"  -> Configured.insufficientRoles
      [] r.resp.status = 403 /\ pipeline[r.by].k = "scope" -> Configured.insufficientScopes
      [] r.resp.status = 401 /\ pipeline[r.by].k = "authentication"
           /\ "error" \in DOMAIN r.resp.body.details       -> Configured.invalidToken
      [] OTHER -> r.resp.body.details.message

\* a response emitted in this step carries the message configured before it
EmitsConfigured ==
    responses' # responses /\ responses' # <<>> =>
        LET r == responses'[Len(responses')]
        IN  r.resp.body.details.message = ConfiguredMessage(r)

\* C39: after any sequence of configureApi calls the active configuration
\* is the defaults overlaid with the argument of the latest call only,
\* defaultApiConfig is unchanged, and the configured insufficient-role,
\* insufficient-scope and invalid-token messages are the details.message of
\* the responses emitted afterwards.
C39_LatestConfigurationOnly == []ConfigurationInForce /\ [][EmitsConfigured]_vars

\* two calls were made, the first set the role message and the second did
\* not: a role refusal emitted afterwards carries the default message
C39_Witness ==
    /\ settings.calls = 2
    /\ settings.latest = ConfigArgument([k \in {"invalidToken", "insufficientScopes"} |->
                        IF k = "invalidToken" THEN "bad token" ELSE "scope needed"])
    /\ apiConfig.invalidToken = "bad token"
    /\ responses # <<>>
    /\ responses[1].resp.status = 403
    /\ pipeline[responses[1].by].k = "role"
    /\ responses[1].resp.body.details.message = "Insufficient role permissions"

====
